---- MODULE Spec2Model ----
(***************************************************************************)
(* Model of the task dispatchers of alx-home/cpp_utils:                    *)
(*   Poll<SIZE>     (include/utils/Poll.inl)   SIZE workers, SIZE queues   *)
(*   MessageQueue   (src/MessageQueue.cpp)     one worker, one queue       *)
(* Both share one mutex, one condition variable and the flag runing_.      *)
(* Also the compile-time counters Counter and TreeCounter                  *)
(* (include/cpp_utils/Counter.h), as the state of a translation unit.      *)
(* Also the XOR obfuscation ObfuscateString / DeobfuscateString            *)
(* (include/cpp_utils/encryption.h).                                       *)
(*                                                                         *)
(* Threads are <<"worker", i>>, <<"caller", k>> and <<"owner", 0>> (the    *)
(* thread that runs the destructor).  A task is a number 1..MaxTasks, the  *)
(* rank of the Dispatch call that submitted it.  A task body may itself    *)
(* call Dispatch on the same object before it returns.                     *)
(***************************************************************************)
EXTENDS Integers, Sequences, FiniteSets, TLC

\* Bounds of the model: the largest SIZE a Poll is instantiated with, the
\* number of Dispatch calls made on one object, the number of threads other
\* than the workers that call Dispatch.
MaxSize == 2
MaxTasks == 3
NumCallers == 1

\* Bounds of the compile-time counters (include/cpp_utils/Counter.h): the
\* number of Counter / TreeCounter / UniqueId evaluations the code of one
\* translation unit makes, the number of distinct TAG types of its own, the
\* largest BLOCK_SIZE.
MaxEvals == 6
NumTags == 2
MaxBlockSize == 4

\* Bound of the identifiers (include/cpp_utils/encryption.h): the number of
\* UniqueId evaluations the code of one translation unit makes.
MaxIds == 2

\* Bounds of the obfuscation (include/cpp_utils/encryption.h): the length of
\* the KEY and VALUE string literals, terminator not counted, and the
\* number of sample char values beside 0.
MaxKeyLen == 2
MaxValueLen == 3
MaxSample == 2

VARIABLES
  kind,      \* "Poll" or "MessageQueue": which class the object is;
             \*   "Counter", "UniqueId": a translation unit that includes
             \*   Counter.h only, or encryption.h (and Counter.h with it)
  SIZE,      \* the template argument of Poll<SIZE> (MessageQueue: 1)
  queue_,    \* queue_[i]: the deque of worker i (MessageQueue: only i = 0)
  runing_,   \* the running flag
  mutex_,    \* the thread that holds mutex_, or NoThread
  pc,        \* pc[t]: where thread t is
  cur,       \* cur[i]: the task worker i popped and is running (0: none)
  arg,       \* arg[t]: the task thread t is passing to Dispatch (0: none)
  nextTask,  \* number of Dispatch calls made so far
  accepted,  \* history: [task, queue] in the order Dispatch appended them
  rejected,  \* history: [task, inTask] for every Dispatch that returned false
             \*   (inTask: the call was made by a task body, on a worker)
  started,   \* history: [task, worker, runing] in the order the workers of
             \*   the object popped tasks
  finished,  \* history: the tasks whose elem(), called by a worker of the
             \*   object, has returned
  counter,   \* the shared counter every task body increments
  terminated, \* the process has been ended (std::terminate, a fatal signal)
  strayed,   \* [task, at] for every Dispatch call that went on after the
             \*   destructor had returned and gave true, in the order of
             \*   these calls; at: where the task
             \*   is in the object then in the storage: "queued", "locked"
             \*   (in its queue, a worker holding the mutex), "body" (popped,
             \*   elem() called), "returned"
  marked,    \* Counter.h: the CounterHelper specializations whose friend
             \*   IsDefined(tag) has been defined in the translation unit
  counterLog, \* history: counterLog[t]: [dry, value] of the Counter<0, t, dry>()
             \*   evaluations, in order
  treeLog,   \* history: treeLog[t]: the values of the
             \*   TreeCounter<0, t, BLOCK_SIZE>() evaluations, in order
  BLOCK_SIZE, \* the BLOCK_SIZE the translation unit passes to TreeCounter
  uniqueLog, \* history: [bytes, seed] of the UniqueId<SIZE>() evaluations of
             \*   the translation unit's own code, in order
  KEY,       \* encryption.h: KEY.value_, the chars of the key literal and
             \*   its terminating zero
  VALUE,     \* VALUE.value_, likewise
  obfuscated, \* the chars ObfuscateString<KEY, VALUE>() returned
  deobfuscated, \* the chars DeobfuscateString<KEY>(obfuscated) returned
  stage      \* "none", "chosen", "obfuscated", "deobfuscated"

vars == <<kind, SIZE, queue_, runing_, mutex_, pc, cur, arg, nextTask,
          accepted, rejected, started, finished, counter, terminated, strayed,
          marked, counterLog, treeLog, BLOCK_SIZE, uniqueLog,
          KEY, VALUE, obfuscated, deobfuscated, stage>>

\* The state of the obfuscation; no step of a Poll, of a MessageQueue or of
\* a counter changes it.
obfuscation == <<KEY, VALUE, obfuscated, deobfuscated, stage>>

hist == <<accepted, rejected, started, finished, counter>>

\* The state of the compile-time counters; no step of a Poll or of a
\* MessageQueue changes it.
compileTime == <<marked, counterLog, treeLog, BLOCK_SIZE, uniqueLog>>

----------------------------------------------------------------------------
\* Threads

W(i) == <<"worker", i>>
C(k) == <<"caller", k>>
Owner == <<"owner", 0>>
NoThread == <<"none", 0>>

Workers == 0 .. (SIZE - 1)
Callers == 1 .. NumCallers
Tasks == 1 .. MaxTasks

ThreadsOf(n) ==
  {W(i) : i \in 0 .. (n - 1)} \cup {C(c) : c \in Callers} \cup {Owner}

\* Threads that can be inside Dispatch: the external callers and the workers
\* (from inside a task body).
DispatchThreads == {W(i) : i \in Workers} \cup {C(c) : c \in Callers}

IsWorker(t) == t[1] = "worker"

\* Where a thread is when it is not inside Dispatch.
Outside(t) == IF IsWorker(t) THEN "exec" ELSE "idle"

----------------------------------------------------------------------------
\* Primitives of the standard library

\* std::mutex: lock() blocks until nobody holds it.
MutexFree == mutex_ = NoThread

\* The object's storage is gone: the destructor has returned.
Destroyed == pc[Owner] = "done"

\* Mutant: notify_one: one blocked thread is unblocked.
NotifyOne(p) ==
  IF \E t \in DOMAIN p : p[t] = "wait"
  THEN [p EXCEPT ![CHOOSE t \in DOMAIN p : p[t] = "wait"] = "woken"]
  ELSE p

\* std::condition_variable::notify_all: every thread blocked in wait is
\* unblocked; each still has to get the mutex back before wait returns.
NotifyAll(p) == [t \in DOMAIN p |-> IF p[t] = "wait" THEN "woken" ELSE p[t]]

\* Mutant: the new element is put at the front.
EmplaceFront(q, x) == <<x>> \o q

\* Mutant: the front element is left in the deque.
PopFrontKeeps(q) == q

\* std::deque::emplace_back, front, pop_front
EmplaceBack(q, x) == Append(q, x)
Front(q) == Head(q)
PopFront(q) == Tail(q)

----------------------------------------------------------------------------
\* Poll<SIZE>

\* Poll.inl:79-87: the scan for the shortest queue, from queue_.begin(); a
\* later queue replaces the candidate only if it is strictly shorter.
\* Mutant: a later queue of equal length replaces the candidate.
RECURSIVE ScanLastMin(_, _, _)
ScanLastMin(q, it, queue) ==
  IF it >= SIZE THEN queue
  ELSE ScanLastMin(q, it + 1, IF Len(q[it]) <= Len(q[queue]) THEN it ELSE queue)

\* Mutant: the comparison is reversed, a longer queue replaces the candidate.
RECURSIVE ScanLongest(_, _, _)
ScanLongest(q, it, queue) ==
  IF it >= SIZE THEN queue
  ELSE ScanLongest(q, it + 1, IF Len(q[it]) > Len(q[queue]) THEN it ELSE queue)

RECURSIVE Scan(_, _, _)
Scan(q, it, queue) ==
  IF it >= SIZE THEN queue
  ELSE Scan(q, it + 1, IF Len(q[it]) < Len(q[queue]) THEN it ELSE queue)

\* Mutant: no scan, the first queue is taken.
SelectFirst(q) == 0

SelectQueue(q) == Scan(q, 1, 0)

\* The default member initializer of runing_ (the class definitions are in
\* headers that are not part of the sources at hand): the flag starts set.
InitialRuning == TRUE

\* Counter.h:152  the default BLOCK_SIZE of TreeCounter.
DefaultBlockSize == 100

\* encryption.h:99  struct UniqueIdTag, the TAG under which UniqueId marks
\* the IDs it has used.
UniqueIdTag == 0

\* The TAG types a translation unit declares itself.
CounterTags == 1 .. NumTags

\* The TAG types a translation unit can pass to Counter and TreeCounter:
\* its own, and UniqueIdTag where encryption.h is included.
Tags == {UniqueIdTag} \cup CounterTags

\* No string has been obfuscated.
NothingObfuscated ==
  /\ KEY = <<>>
  /\ VALUE = <<>>
  /\ obfuscated = <<>>
  /\ deobfuscated = <<>>
  /\ stage = "none"

\* A translation unit whose own code has evaluated no Counter, TreeCounter
\* or UniqueId yet; m: the IsDefined(tag) the headers it includes have
\* defined.
NothingEvaluated(b, m) ==
  /\ marked = m
  /\ counterLog = [t \in Tags |-> <<>>]
  /\ treeLog = [t \in Tags |-> <<>>]
  /\ BLOCK_SIZE = b
  /\ uniqueLog = <<>>

\* The state once the constructor has returned: SIZE threads created, every
\* queue empty, the flag set.  A Poll worker owns a std::string of its name
\* (Poll.inl:57) and is taken at the top of its loop; the MessageQueue worker
\* has only a std::string_view of the caller's characters and has yet to
\* read them.
Constructed(k, n) ==
  /\ NothingObfuscated
  /\ NothingEvaluated(DefaultBlockSize, {})
  /\ kind = k
  /\ SIZE = n
  /\ queue_ = [i \in 0 .. (n - 1) |-> <<>>]
  /\ runing_ = InitialRuning
  /\ mutex_ = NoThread
  /\ pc = [t \in ThreadsOf(n) |->
             IF IsWorker(t) THEN (IF k = "MessageQueue" THEN "name" ELSE "lock")
             ELSE IF t = Owner THEN "alive" ELSE "idle"]
  /\ cur = [i \in 0 .. (n - 1) |-> 0]
  /\ arg = [t \in ThreadsOf(n) |-> 0]
  /\ nextTask = 0
  /\ accepted = <<>>
  /\ rejected = {}
  /\ started = <<>>
  /\ finished = {}
  /\ counter = 0
  /\ terminated = FALSE
  /\ strayed = <<>>

PollInit == \E n \in 1 .. MaxSize : Constructed("Poll", n)

\* Poll.inl:42  std::unique_lock lock{mutex_};
PollWorkerLock(i) ==
  /\ kind = "Poll"
  /\ ~terminated
  /\ pc[W(i)] = "lock"
  /\ MutexFree
  /\ mutex_' = W(i)
  /\ pc' = [pc EXCEPT ![W(i)] = "crit"]
  /\ UNCHANGED <<terminated, strayed, obfuscation, compileTime, kind, SIZE, queue_, runing_, cur, arg, nextTask, hist>>

\* Mutant: no lock.unlock() before elem(): the task runs under the lock.
PollWorkerPopLocked(i) ==
  /\ kind = "Poll"
  /\ ~terminated
  /\ pc[W(i)] = "crit"
  /\ Len(queue_[i]) > 0
  /\ cur' = [cur EXCEPT ![i] = Front(queue_[i])]
  /\ queue_' = [queue_ EXCEPT ![i] = PopFront(queue_[i])]
  /\ pc' = [pc EXCEPT ![W(i)] = "exec"]
  /\ started' = Append(started, [task |-> Front(queue_[i]), worker |-> i, runing |-> runing_])
  /\ UNCHANGED <<terminated, strayed, obfuscation, compileTime, kind, SIZE, runing_, mutex_, arg, nextTask, accepted, rejected, finished, counter>>

\* Mutant: the worker takes the front task of any queue that has one.
PollWorkerPopSteals(i) ==
  /\ kind = "Poll"
  /\ ~terminated
  /\ pc[W(i)] = "crit"
  /\ \E j \in Workers :
       /\ Len(queue_[j]) > 0
       /\ cur' = [cur EXCEPT ![i] = Front(queue_[j])]
       /\ queue_' = [queue_ EXCEPT ![j] = PopFront(queue_[j])]
       /\ started' = Append(started, [task |-> Front(queue_[j]), worker |-> i, runing |-> runing_])
  /\ mutex_' = NoThread
  /\ pc' = [pc EXCEPT ![W(i)] = "exec"]
  /\ UNCHANGED <<terminated, strayed, obfuscation, compileTime, kind, SIZE, runing_, arg, nextTask, accepted, rejected, finished, counter>>

\* Mutant: one order for all queues: a worker pops its front task only
\* when every task accepted before it has been popped.
PollWorkerPopInTurn(i) ==
  /\ kind = "Poll"
  /\ ~terminated
  /\ pc[W(i)] = "crit"
  /\ Len(queue_[i]) > 0
  /\ \A k \in DOMAIN accepted :
       accepted[k].task = Front(queue_[i]) =>
         \A j \in 1 .. (k - 1) : \E n \in DOMAIN started : started[n].task = accepted[j].task
  /\ cur' = [cur EXCEPT ![i] = Front(queue_[i])]
  /\ queue_' = [queue_ EXCEPT ![i] = PopFront(queue_[i])]
  /\ mutex_' = NoThread
  /\ pc' = [pc EXCEPT ![W(i)] = "exec"]
  /\ started' = Append(started, [task |-> Front(queue_[i]), worker |-> i, runing |-> runing_])
  /\ UNCHANGED <<terminated, strayed, obfuscation, compileTime, kind, SIZE, runing_, arg, nextTask, accepted, rejected, finished, counter>>

\* Poll.inl:44-47  queue_[i] not empty: move the front out, pop it, unlock.
PollWorkerPop(i) ==
  /\ kind = "Poll"
  /\ ~terminated
  /\ pc[W(i)] = "crit"
  /\ Len(queue_[i]) > 0
  /\ cur' = [cur EXCEPT ![i] = Front(queue_[i])]
  /\ queue_' = [queue_ EXCEPT ![i] = PopFront(queue_[i])]
  /\ mutex_' = NoThread
  /\ pc' = [pc EXCEPT ![W(i)] = "exec"]
  /\ started' = Append(started, [task |-> Front(queue_[i]), worker |-> i, runing |-> runing_])
  /\ UNCHANGED <<terminated, strayed, obfuscation, compileTime, kind, SIZE, runing_, arg, nextTask, accepted, rejected, finished, counter>>

\* Mutant: a worker that finds its queue empty with the flag set leaves.
PollWorkerWaitExits(i) ==
  /\ kind = "Poll"
  /\ ~terminated
  /\ pc[W(i)] = "crit"
  /\ Len(queue_[i]) = 0
  /\ runing_
  /\ mutex_' = NoThread
  /\ pc' = [pc EXCEPT ![W(i)] = "done"]
  /\ UNCHANGED <<terminated, strayed, obfuscation, compileTime, kind, SIZE, queue_, runing_, cur, arg, nextTask, hist>>

\* Poll.inl:50-51  queue_[i] empty and runing_: cv_.wait(lock) releases the
\* mutex and blocks.
PollWorkerWait(i) ==
  /\ kind = "Poll"
  /\ ~terminated
  /\ pc[W(i)] = "crit"
  /\ Len(queue_[i]) = 0
  /\ runing_
  /\ mutex_' = NoThread
  /\ pc' = [pc EXCEPT ![W(i)] = "wait"]
  /\ UNCHANGED <<terminated, strayed, obfuscation, compileTime, kind, SIZE, queue_, runing_, cur, arg, nextTask, hist>>

\* Mutant: the worker leaves as soon as the flag is cleared, its queue
\* drained or not.
PollWorkerBreakNoDrain(i) ==
  /\ kind = "Poll"
  /\ ~terminated
  /\ pc[W(i)] = "crit"
  /\ ~runing_
  /\ mutex_' = NoThread
  /\ pc' = [pc EXCEPT ![W(i)] = "done"]
  /\ UNCHANGED <<terminated, strayed, obfuscation, compileTime, kind, SIZE, queue_, runing_, cur, arg, nextTask, hist>>

\* Poll.inl:52-53  queue_[i] empty and not runing_: break; the lock is
\* released on the way out and the thread function returns.
PollWorkerBreak(i) ==
  /\ kind = "Poll"
  /\ ~terminated
  /\ pc[W(i)] = "crit"
  /\ Len(queue_[i]) = 0
  /\ ~runing_
  /\ mutex_' = NoThread
  /\ pc' = [pc EXCEPT ![W(i)] = "done"]
  /\ UNCHANGED <<terminated, strayed, obfuscation, compileTime, kind, SIZE, queue_, runing_, cur, arg, nextTask, hist>>

\* Poll.inl:51  a notified worker gets the mutex back and wait returns.
PollWorkerWake(i) ==
  /\ kind = "Poll"
  /\ ~terminated
  /\ pc[W(i)] = "woken"
  /\ MutexFree
  /\ mutex_' = W(i)
  /\ pc' = [pc EXCEPT ![W(i)] = "loop"]
  /\ UNCHANGED <<terminated, strayed, obfuscation, compileTime, kind, SIZE, queue_, runing_, cur, arg, nextTask, hist>>

\* Poll.inl:55  end of the iteration: lock goes out of scope.
PollWorkerLoop(i) ==
  /\ kind = "Poll"
  /\ ~terminated
  /\ pc[W(i)] = "loop"
  /\ mutex_' = NoThread
  /\ pc' = [pc EXCEPT ![W(i)] = "lock"]
  /\ UNCHANGED <<terminated, strayed, obfuscation, compileTime, kind, SIZE, queue_, runing_, cur, arg, nextTask, hist>>

\* Poll.inl:51  cv_.wait may return without a notification.
PollWorkerSpurious(i) ==
  /\ kind = "Poll"
  /\ ~terminated
  /\ pc[W(i)] = "wait"
  /\ pc' = [pc EXCEPT ![W(i)] = "woken"]
  /\ UNCHANGED <<terminated, strayed, obfuscation, compileTime, kind, SIZE, queue_, runing_, mutex_, cur, arg, nextTask, hist>>

\* Poll.inl:49  elem() returns (the task body has incremented the counter).
PollTaskReturn(i) ==
  /\ kind = "Poll"
  /\ ~terminated
  /\ pc[W(i)] = "exec"
  /\ finished' = finished \cup {cur[i]}
  /\ counter' = counter + 1
  /\ cur' = [cur EXCEPT ![i] = 0]
  /\ pc' = [pc EXCEPT ![W(i)] = "lock"]
  /\ UNCHANGED <<terminated, strayed, obfuscation, compileTime, kind, SIZE, queue_, runing_, mutex_, arg, nextTask, accepted, rejected, started>>

\* A thread calls Dispatch(func): an external caller, or a task body running
\* on a worker.  Nobody calls into an object whose destructor has returned.
PollDispatchCallUpTo(t, n) ==
  /\ kind = "Poll"
  /\ ~terminated
  /\ pc[t] = Outside(t)
  /\ pc[Owner] # "done"
  /\ nextTask < n
  /\ nextTask' = nextTask + 1
  /\ arg' = [arg EXCEPT ![t] = nextTask + 1]
  /\ pc' = [pc EXCEPT ![t] = "d_lock"]
  /\ UNCHANGED <<terminated, strayed, obfuscation, compileTime, kind, SIZE, queue_, runing_, mutex_, cur, hist>>

PollDispatchCall(t) == PollDispatchCallUpTo(t, MaxTasks)

\* Mutant: Dispatch goes on without waiting for the mutex.
PollDispatchNoLock(t) ==
  /\ kind = "Poll"
  /\ ~terminated
  /\ pc[t] = "d_lock"
  /\ mutex_' = t
  /\ pc' = [pc EXCEPT ![t] = "d_crit"]
  /\ UNCHANGED <<terminated, strayed, obfuscation, compileTime, kind, SIZE, queue_, runing_, cur, arg, nextTask, hist>>

\* Poll.inl:77  std::unique_lock lock{mutex_};
PollDispatchLock(t) ==
  /\ kind = "Poll"
  /\ ~terminated
  /\ pc[t] = "d_lock"
  /\ ~Destroyed
  /\ MutexFree
  /\ mutex_' = t
  /\ pc' = [pc EXCEPT ![t] = "d_crit"]
  /\ UNCHANGED <<terminated, strayed, obfuscation, compileTime, kind, SIZE, queue_, runing_, cur, arg, nextTask, hist>>

\* Mutant: the task is appended and nobody is notified.
PollDispatchAcceptNoNotify(t) ==
  /\ kind = "Poll"
  /\ ~terminated
  /\ pc[t] = "d_crit"
  /\ ~Destroyed
  /\ runing_
  /\ LET queue == SelectQueue(queue_) IN
       /\ queue_' = [queue_ EXCEPT ![queue] = EmplaceBack(queue_[queue], arg[t])]
       /\ accepted' = Append(accepted, [task |-> arg[t], queue |-> queue])
  /\ pc' = [pc EXCEPT ![t] = Outside(t)]
  /\ mutex_' = NoThread
  /\ arg' = [arg EXCEPT ![t] = 0]
  /\ UNCHANGED <<terminated, strayed, obfuscation, compileTime, kind, SIZE, runing_, cur, nextTask, rejected, started, finished, counter>>

\* Mutant: the flag is not tested.
PollDispatchAcceptAlways(t) ==
  /\ kind = "Poll"
  /\ ~terminated
  /\ pc[t] = "d_crit"
  /\ ~Destroyed
  /\ LET queue == SelectQueue(queue_) IN
       /\ queue_' = [queue_ EXCEPT ![queue] = EmplaceBack(queue_[queue], arg[t])]
       /\ accepted' = Append(accepted, [task |-> arg[t], queue |-> queue])
  /\ pc' = [NotifyAll(pc) EXCEPT ![t] = Outside(t)]
  /\ mutex_' = NoThread
  /\ arg' = [arg EXCEPT ![t] = 0]
  /\ UNCHANGED <<terminated, strayed, obfuscation, compileTime, kind, SIZE, runing_, cur, nextTask, rejected, started, finished, counter>>

\* Poll.inl:78-90  runing_: append to the selected queue, notify_all,
\* return true (the lock is released on return).
PollDispatchAccept(t) ==
  /\ kind = "Poll"
  /\ ~terminated
  /\ pc[t] = "d_crit"
  /\ ~Destroyed
  /\ runing_
  /\ LET queue == SelectQueue(queue_) IN
       /\ queue_' = [queue_ EXCEPT ![queue] = EmplaceBack(queue_[queue], arg[t])]
       /\ accepted' = Append(accepted, [task |-> arg[t], queue |-> queue])
  /\ pc' = [NotifyAll(pc) EXCEPT ![t] = Outside(t)]
  /\ mutex_' = NoThread
  /\ arg' = [arg EXCEPT ![t] = 0]
  /\ UNCHANGED <<terminated, strayed, obfuscation, compileTime, kind, SIZE, runing_, cur, nextTask, rejected, started, finished, counter>>

\* Mutant: the Dispatch that finds the flag cleared sets it again.
PollDispatchRejectReopens(t) ==
  /\ kind = "Poll"
  /\ ~terminated
  /\ pc[t] = "d_crit"
  /\ ~runing_
  /\ runing_' = TRUE
  /\ rejected' = rejected \cup {[task |-> arg[t], inTask |-> IsWorker(t)]}
  /\ pc' = [pc EXCEPT ![t] = Outside(t)]
  /\ mutex_' = NoThread
  /\ arg' = [arg EXCEPT ![t] = 0]
  /\ UNCHANGED <<terminated, strayed, obfuscation, compileTime, kind, SIZE, queue_, cur, nextTask, accepted, started, finished, counter>>

\* Mutant: the Dispatch that finds the flag cleared returns false and
\* appends the task all the same.
PollDispatchRejectAppends(t) ==
  /\ kind = "Poll"
  /\ ~terminated
  /\ pc[t] = "d_crit"
  /\ ~Destroyed
  /\ ~runing_
  /\ queue_' = [queue_ EXCEPT ![0] = EmplaceBack(queue_[0], arg[t])]
  /\ rejected' = rejected \cup {[task |-> arg[t], inTask |-> IsWorker(t)]}
  /\ pc' = [pc EXCEPT ![t] = Outside(t)]
  /\ mutex_' = NoThread
  /\ arg' = [arg EXCEPT ![t] = 0]
  /\ UNCHANGED <<terminated, strayed, obfuscation, compileTime, kind, SIZE, runing_, cur, nextTask, accepted, started, finished, counter>>

\* Poll.inl:93  not runing_: return false.
PollDispatchReject(t) ==
  /\ kind = "Poll"
  /\ ~terminated
  /\ pc[t] = "d_crit"
  /\ ~Destroyed
  /\ ~runing_
  /\ rejected' = rejected \cup {[task |-> arg[t], inTask |-> IsWorker(t)]}
  /\ pc' = [pc EXCEPT ![t] = Outside(t)]
  /\ mutex_' = NoThread
  /\ arg' = [arg EXCEPT ![t] = 0]
  /\ UNCHANGED <<terminated, strayed, obfuscation, compileTime, kind, SIZE, queue_, runing_, cur, nextTask, accepted, started, finished, counter>>

\* Poll.inl:77-93 reached after ~Poll has returned (it joins the workers
\* only, not the callers inside Dispatch): the call locks a
\* destroyed mutex and reads the flag of a destroyed object, which is
\* undefined.  What the storage holds by then decides: the process is ended
\* (an exception nothing catches, a fatal signal), or Dispatch returns true,
\* the task put in the queue of whatever object lies there now, or Dispatch
\* returns false, or the lock or the append throws and the caller catches
\* the exception (Dispatch gives no result, nothing is queued, the caller
\* goes on), or the call never returns ("d_blocked", which no step leaves).
\* The mutex of the object is gone with it: nobody holds it any more.
PollDispatchDestroyed(t) ==
  /\ kind = "Poll"
  /\ ~terminated
  /\ pc[t] \in {"d_lock", "d_crit"}
  /\ Destroyed
  /\ \/ /\ terminated' = TRUE
        /\ UNCHANGED <<pc, mutex_, arg, rejected, strayed>>
     \/ /\ strayed' = Append(strayed, [task |-> arg[t], at |-> "queued"])
        /\ pc' = [pc EXCEPT ![t] = Outside(t)]
        /\ mutex_' = IF mutex_ = t THEN NoThread ELSE mutex_
        /\ arg' = [arg EXCEPT ![t] = 0]
        /\ UNCHANGED <<terminated, rejected>>
     \/ /\ rejected' = rejected \cup {[task |-> arg[t], inTask |-> IsWorker(t)]}
        /\ pc' = [pc EXCEPT ![t] = Outside(t)]
        /\ mutex_' = IF mutex_ = t THEN NoThread ELSE mutex_
        /\ arg' = [arg EXCEPT ![t] = 0]
        /\ UNCHANGED <<terminated, strayed>>
     \/ /\ pc' = [pc EXCEPT ![t] = Outside(t)]
        /\ mutex_' = IF mutex_ = t THEN NoThread ELSE mutex_
        /\ arg' = [arg EXCEPT ![t] = 0]
        /\ UNCHANGED <<terminated, rejected, strayed>>
     \/ /\ pc' = [pc EXCEPT ![t] = "d_blocked"]
        /\ mutex_' = IF mutex_ = t THEN NoThread ELSE mutex_
        /\ UNCHANGED <<terminated, arg, rejected, strayed>>
  /\ UNCHANGED <<obfuscation, compileTime, kind, SIZE, queue_, runing_, cur, nextTask, accepted, started, finished, counter>>

\* The steps below are those of a worker of the object that lies in the
\* storage now, an object of the same class, on a task that a Dispatch call
\* gone on after the destruction put in its queue.  Of that object only the
\* place of such tasks is kept: its other tasks, its flag and its threads
\* are not part of the state, and what the body of the task calls goes to
\* that object.

\* A worker of the object in the storage can take the k-th of these tasks:
\* the mutex is not held by another of its workers, one of its SIZE workers is
\* not in a task, and with a single queue the tasks before it have been
\* taken and their bodies have returned.
PollStorageFree(k) ==
  /\ \A j \in DOMAIN strayed : strayed[j].at # "locked"
  /\ Cardinality({j \in DOMAIN strayed : strayed[j].at = "body"}) < SIZE
  /\ SIZE = 1 => \A j \in 1 .. (k - 1) : strayed[j].at = "returned"

\* Poll.inl:42  std::unique_lock lock{mutex_}; by the worker whose
\* queue holds the k-th task.
PollStrayedLock(k) ==
  /\ kind = "Poll"
  /\ ~terminated
  /\ strayed[k].at = "queued"
  /\ PollStorageFree(k)
  /\ strayed' = [strayed EXCEPT ![k].at = "locked"]
  /\ UNCHANGED <<terminated, obfuscation, compileTime, kind, SIZE, queue_, runing_, mutex_, pc, cur, arg, nextTask, hist>>

\* Poll.inl:44-49  the front is moved out and popped, the lock released;
\* elem() is called.
PollStrayedPop(k) ==
  /\ kind = "Poll"
  /\ ~terminated
  /\ strayed[k].at = "locked"
  /\ strayed' = [strayed EXCEPT ![k].at = "body"]
  /\ UNCHANGED <<terminated, obfuscation, compileTime, kind, SIZE, queue_, runing_, mutex_, pc, cur, arg, nextTask, hist>>

\* Poll.inl:49  elem() returns (the task body has incremented the
\* counter).
PollStrayedReturn(k) ==
  /\ kind = "Poll"
  /\ ~terminated
  /\ strayed[k].at = "body"
  /\ strayed' = [strayed EXCEPT ![k].at = "returned"]
  /\ counter' = counter + 1
  /\ UNCHANGED <<terminated, obfuscation, compileTime, kind, SIZE, queue_, runing_, mutex_, pc, cur, arg, nextTask, accepted, rejected, started, finished>>

\* The workers of the object in the storage, every task body returning.
PollStrayed ==
  \/ \E k \in DOMAIN strayed : PollStrayedLock(k)
  \/ \E k \in DOMAIN strayed : PollStrayedPop(k)
  \/ \E k \in DOMAIN strayed : PollStrayedReturn(k)

\* The owner lets the Poll go out of scope: ~Poll is entered.
PollDtorCall ==
  /\ kind = "Poll"
  /\ ~terminated
  /\ pc[Owner] = "alive"
  /\ pc' = [pc EXCEPT ![Owner] = "t_lock"]
  /\ UNCHANGED <<terminated, strayed, obfuscation, compileTime, kind, SIZE, queue_, runing_, mutex_, cur, arg, nextTask, hist>>

\* Poll.inl:65  std::unique_lock lock{mutex_};
PollDtorLock ==
  /\ kind = "Poll"
  /\ ~terminated
  /\ pc[Owner] = "t_lock"
  /\ MutexFree
  /\ mutex_' = Owner
  /\ pc' = [pc EXCEPT ![Owner] = "t_crit"]
  /\ UNCHANGED <<terminated, strayed, obfuscation, compileTime, kind, SIZE, queue_, runing_, cur, arg, nextTask, hist>>

\* Mutant: the flag is cleared and nobody is notified.
PollDtorStopNoNotify ==
  /\ kind = "Poll"
  /\ ~terminated
  /\ pc[Owner] = "t_crit"
  /\ runing_' = FALSE
  /\ pc' = [pc EXCEPT ![Owner] = "join"]
  /\ mutex_' = NoThread
  /\ UNCHANGED <<terminated, strayed, obfuscation, compileTime, kind, SIZE, queue_, cur, arg, nextTask, hist>>

\* Poll.inl:66-68  runing_ = false; cv_.notify_all(); unlock.
PollDtorStop ==
  /\ kind = "Poll"
  /\ ~terminated
  /\ pc[Owner] = "t_crit"
  /\ runing_' = FALSE
  /\ pc' = [NotifyAll(pc) EXCEPT ![Owner] = "join"]
  /\ mutex_' = NoThread
  /\ UNCHANGED <<terminated, strayed, obfuscation, compileTime, kind, SIZE, queue_, cur, arg, nextTask, hist>>

\* Mutant: the destructor returns without joining the workers.
PollDtorNoJoin ==
  /\ kind = "Poll"
  /\ ~terminated
  /\ pc[Owner] = "join"
  /\ pc' = [pc EXCEPT ![Owner] = "done"]
  /\ UNCHANGED <<terminated, strayed, obfuscation, compileTime, kind, SIZE, queue_, runing_, mutex_, cur, arg, nextTask, hist>>

\* Poll.inl:69-71  thread.join() for every worker, in index order (the order
\* does not show: the destructor leaves the loop once all have ended).
PollDtorJoin ==
  /\ kind = "Poll"
  /\ ~terminated
  /\ pc[Owner] = "join"
  /\ \A i \in Workers : pc[W(i)] = "done"
  /\ pc' = [pc EXCEPT ![Owner] = "done"]
  /\ UNCHANGED <<terminated, strayed, obfuscation, compileTime, kind, SIZE, queue_, runing_, mutex_, cur, arg, nextTask, hist>>

\* The loop of worker i but for the task bodies.
PollWorkerLoopBody(i) ==
  \/ PollWorkerLock(i)
  \/ PollWorkerPop(i)
  \/ PollWorkerWait(i)
  \/ PollWorkerBreak(i)
  \/ PollWorkerWake(i)
  \/ PollWorkerLoop(i)

PollWorker(i) ==
  \/ PollWorkerLoopBody(i)
  \/ PollTaskReturn(i)

PollDispatch(t) ==
  \/ PollDispatchLock(t)
  \/ PollDispatchAccept(t)
  \/ PollDispatchReject(t)
  \/ PollDispatchDestroyed(t)

PollDtor ==
  \/ PollDtorLock
  \/ PollDtorStop
  \/ PollDtorJoin

\* The steps the code takes once a call has been made or a thread started.
PollProgress ==
  \/ \E i \in Workers : PollWorker(i)
  \/ \E t \in DispatchThreads : PollDispatch(t)
  \/ PollDtor

\* The calls made on the object.
PollCalls ==
  \/ \E t \in DispatchThreads : PollDispatchCall(t)
  \/ PollDtorCall

\* cv_.wait returns only on a notification.
PollNextNoSpurious ==
  \/ PollProgress
  \/ PollCalls
  \/ PollStrayed

PollNext ==
  \/ PollNextNoSpurious
  \/ \E i \in Workers : PollWorkerSpurious(i)

----------------------------------------------------------------------------
\* MessageQueue: one worker (index 0), one queue (queue_[0])

MQInit == Constructed("MessageQueue", 1)

\* MessageQueue.cpp:32-36, 53  the worker reads the characters its
\* std::string_view refers to, to name the thread.  When the caller passed a
\* temporary the characters are gone once the constructor has returned, and
\* the read is undefined: it gives the old or other characters (the thread
\* name does not show in this model) or ends the process.
MQWorkerName ==
  /\ kind = "MessageQueue"
  /\ ~terminated
  /\ pc[W(0)] = "name"
  /\ \E temporary \in BOOLEAN :
       \/ /\ pc' = [pc EXCEPT ![W(0)] = "lock"]
          /\ UNCHANGED terminated
       \/ /\ temporary
          /\ terminated' = TRUE
          /\ UNCHANGED pc
  /\ UNCHANGED <<strayed, obfuscation, compileTime, kind, SIZE, queue_, runing_, mutex_, cur, arg, nextTask, hist>>

\* MessageQueue.cpp:38  std::unique_lock lock{mutex_};
MQWorkerLock ==
  /\ kind = "MessageQueue"
  /\ ~terminated
  /\ pc[W(0)] = "lock"
  /\ MutexFree
  /\ mutex_' = W(0)
  /\ pc' = [pc EXCEPT ![W(0)] = "crit"]
  /\ UNCHANGED <<terminated, strayed, obfuscation, compileTime, kind, SIZE, queue_, runing_, cur, arg, nextTask, hist>>

\* Mutant: no lock.unlock() before elem(): the task runs under the lock.
MQWorkerPopLocked ==
  /\ kind = "MessageQueue"
  /\ ~terminated
  /\ pc[W(0)] = "crit"
  /\ Len(queue_[0]) > 0
  /\ cur' = [cur EXCEPT ![0] = Front(queue_[0])]
  /\ queue_' = [queue_ EXCEPT ![0] = PopFront(queue_[0])]
  /\ pc' = [pc EXCEPT ![W(0)] = "exec"]
  /\ started' = Append(started, [task |-> Front(queue_[0]), worker |-> 0, runing |-> runing_])
  /\ UNCHANGED <<terminated, strayed, obfuscation, compileTime, kind, SIZE, runing_, mutex_, arg, nextTask, accepted, rejected, finished, counter>>

\* MessageQueue.cpp:40-43  queue_ not empty: move the front out, pop, unlock.
MQWorkerPop ==
  /\ kind = "MessageQueue"
  /\ ~terminated
  /\ pc[W(0)] = "crit"
  /\ Len(queue_[0]) > 0
  /\ cur' = [cur EXCEPT ![0] = Front(queue_[0])]
  /\ queue_' = [queue_ EXCEPT ![0] = PopFront(queue_[0])]
  /\ mutex_' = NoThread
  /\ pc' = [pc EXCEPT ![W(0)] = "exec"]
  /\ started' = Append(started, [task |-> Front(queue_[0]), worker |-> 0, runing |-> runing_])
  /\ UNCHANGED <<terminated, strayed, obfuscation, compileTime, kind, SIZE, runing_, arg, nextTask, accepted, rejected, finished, counter>>

\* MessageQueue.cpp:46-47  queue_ empty and runing_: cv_.wait(lock).
MQWorkerWait ==
  /\ kind = "MessageQueue"
  /\ ~terminated
  /\ pc[W(0)] = "crit"
  /\ Len(queue_[0]) = 0
  /\ runing_
  /\ mutex_' = NoThread
  /\ pc' = [pc EXCEPT ![W(0)] = "wait"]
  /\ UNCHANGED <<terminated, strayed, obfuscation, compileTime, kind, SIZE, queue_, runing_, cur, arg, nextTask, hist>>

\* Mutant: the worker leaves whenever its queue is empty, the flag set or not.
MQWorkerBreakIdle ==
  /\ kind = "MessageQueue"
  /\ ~terminated
  /\ pc[W(0)] = "crit"
  /\ Len(queue_[0]) = 0
  /\ mutex_' = NoThread
  /\ pc' = [pc EXCEPT ![W(0)] = "done"]
  /\ UNCHANGED <<terminated, strayed, obfuscation, compileTime, kind, SIZE, queue_, runing_, cur, arg, nextTask, hist>>

\* MessageQueue.cpp:48-49  queue_ empty and not runing_: break.
MQWorkerBreak ==
  /\ kind = "MessageQueue"
  /\ ~terminated
  /\ pc[W(0)] = "crit"
  /\ Len(queue_[0]) = 0
  /\ ~runing_
  /\ mutex_' = NoThread
  /\ pc' = [pc EXCEPT ![W(0)] = "done"]
  /\ UNCHANGED <<terminated, strayed, obfuscation, compileTime, kind, SIZE, queue_, runing_, cur, arg, nextTask, hist>>

\* MessageQueue.cpp:47  an unblocked worker gets the mutex back and wait
\* returns.
MQWorkerWake ==
  /\ kind = "MessageQueue"
  /\ ~terminated
  /\ pc[W(0)] = "woken"
  /\ MutexFree
  /\ mutex_' = W(0)
  /\ pc' = [pc EXCEPT ![W(0)] = "loop"]
  /\ UNCHANGED <<terminated, strayed, obfuscation, compileTime, kind, SIZE, queue_, runing_, cur, arg, nextTask, hist>>

\* MessageQueue.cpp:51  end of the iteration: lock goes out of scope.
MQWorkerLoop ==
  /\ kind = "MessageQueue"
  /\ ~terminated
  /\ pc[W(0)] = "loop"
  /\ mutex_' = NoThread
  /\ pc' = [pc EXCEPT ![W(0)] = "lock"]
  /\ UNCHANGED <<terminated, strayed, obfuscation, compileTime, kind, SIZE, queue_, runing_, cur, arg, nextTask, hist>>

\* MessageQueue.cpp:47  cv_.wait may return without a notification.
MQWorkerSpurious ==
  /\ kind = "MessageQueue"
  /\ ~terminated
  /\ pc[W(0)] = "wait"
  /\ pc' = [pc EXCEPT ![W(0)] = "woken"]
  /\ UNCHANGED <<terminated, strayed, obfuscation, compileTime, kind, SIZE, queue_, runing_, mutex_, cur, arg, nextTask, hist>>

\* MessageQueue.cpp:45  elem() returns.
MQTaskReturn ==
  /\ kind = "MessageQueue"
  /\ ~terminated
  /\ pc[W(0)] = "exec"
  /\ finished' = finished \cup {cur[0]}
  /\ counter' = counter + 1
  /\ cur' = [cur EXCEPT ![0] = 0]
  /\ pc' = [pc EXCEPT ![W(0)] = "lock"]
  /\ UNCHANGED <<terminated, strayed, obfuscation, compileTime, kind, SIZE, queue_, runing_, mutex_, arg, nextTask, accepted, rejected, started>>

\* A thread calls Dispatch(func).
MQDispatchCall(t) ==
  /\ kind = "MessageQueue"
  /\ ~terminated
  /\ pc[t] = Outside(t)
  /\ pc[Owner] # "done"
  /\ nextTask < MaxTasks
  /\ nextTask' = nextTask + 1
  /\ arg' = [arg EXCEPT ![t] = nextTask + 1]
  /\ pc' = [pc EXCEPT ![t] = "d_lock"]
  /\ UNCHANGED <<terminated, strayed, obfuscation, compileTime, kind, SIZE, queue_, runing_, mutex_, cur, hist>>

\* MessageQueue.cpp:66  std::unique_lock lock{mutex_};
MQDispatchLock(t) ==
  /\ kind = "MessageQueue"
  /\ ~terminated
  /\ pc[t] = "d_lock"
  /\ ~Destroyed
  /\ MutexFree
  /\ mutex_' = t
  /\ pc' = [pc EXCEPT ![t] = "d_crit"]
  /\ UNCHANGED <<terminated, strayed, obfuscation, compileTime, kind, SIZE, queue_, runing_, cur, arg, nextTask, hist>>

\* MessageQueue.cpp:67-69  runing_: append, return true.  The condition
\* variable is not notified.
MQDispatchAccept(t) ==
  /\ kind = "MessageQueue"
  /\ ~terminated
  /\ pc[t] = "d_crit"
  /\ ~Destroyed
  /\ runing_
  /\ queue_' = [queue_ EXCEPT ![0] = EmplaceBack(queue_[0], arg[t])]
  /\ accepted' = Append(accepted, [task |-> arg[t], queue |-> 0])
  /\ pc' = [pc EXCEPT ![t] = Outside(t)]
  /\ mutex_' = NoThread
  /\ arg' = [arg EXCEPT ![t] = 0]
  /\ UNCHANGED <<terminated, strayed, obfuscation, compileTime, kind, SIZE, runing_, cur, nextTask, rejected, started, finished, counter>>

\* MessageQueue.cpp:72  not runing_: return false.
MQDispatchReject(t) ==
  /\ kind = "MessageQueue"
  /\ ~terminated
  /\ pc[t] = "d_crit"
  /\ ~Destroyed
  /\ ~runing_
  /\ rejected' = rejected \cup {[task |-> arg[t], inTask |-> IsWorker(t)]}
  /\ pc' = [pc EXCEPT ![t] = Outside(t)]
  /\ mutex_' = NoThread
  /\ arg' = [arg EXCEPT ![t] = 0]
  /\ UNCHANGED <<terminated, strayed, obfuscation, compileTime, kind, SIZE, queue_, runing_, cur, nextTask, accepted, started, finished, counter>>

\* MessageQueue.cpp:66-72 reached after ~MessageQueue has returned (it joins
\* the worker only, not the callers inside Dispatch): the call locks a
\* destroyed mutex and reads the flag of a destroyed object, which is
\* undefined.  What the storage holds by then decides: the process is ended
\* (an exception nothing catches, a fatal signal), or Dispatch returns true,
\* the task put in the queue of whatever object lies there now, or Dispatch
\* returns false, or the lock or the append throws and the caller catches
\* the exception (Dispatch gives no result, nothing is queued, the caller
\* goes on), or the call never returns ("d_blocked", which no step leaves).
\* The mutex of the object is gone with it: nobody holds it any more.
MQDispatchDestroyed(t) ==
  /\ kind = "MessageQueue"
  /\ ~terminated
  /\ pc[t] \in {"d_lock", "d_crit"}
  /\ Destroyed
  /\ \/ /\ terminated' = TRUE
        /\ UNCHANGED <<pc, mutex_, arg, rejected, strayed>>
     \/ /\ strayed' = Append(strayed, [task |-> arg[t], at |-> "queued"])
        /\ pc' = [pc EXCEPT ![t] = Outside(t)]
        /\ mutex_' = IF mutex_ = t THEN NoThread ELSE mutex_
        /\ arg' = [arg EXCEPT ![t] = 0]
        /\ UNCHANGED <<terminated, rejected>>
     \/ /\ rejected' = rejected \cup {[task |-> arg[t], inTask |-> IsWorker(t)]}
        /\ pc' = [pc EXCEPT ![t] = Outside(t)]
        /\ mutex_' = IF mutex_ = t THEN NoThread ELSE mutex_
        /\ arg' = [arg EXCEPT ![t] = 0]
        /\ UNCHANGED <<terminated, strayed>>
     \/ /\ pc' = [pc EXCEPT ![t] = Outside(t)]
        /\ mutex_' = IF mutex_ = t THEN NoThread ELSE mutex_
        /\ arg' = [arg EXCEPT ![t] = 0]
        /\ UNCHANGED <<terminated, rejected, strayed>>
     \/ /\ pc' = [pc EXCEPT ![t] = "d_blocked"]
        /\ mutex_' = IF mutex_ = t THEN NoThread ELSE mutex_
        /\ UNCHANGED <<terminated, arg, rejected, strayed>>
  /\ UNCHANGED <<obfuscation, compileTime, kind, SIZE, queue_, runing_, cur, nextTask, accepted, started, finished, counter>>

\* The steps below are those of a worker of the object that lies in the
\* storage now, an object of the same class, on a task that a Dispatch call
\* gone on after the destruction put in its queue.  Of that object only the
\* place of such tasks is kept: its other tasks, its flag and its threads
\* are not part of the state, and what the body of the task calls goes to
\* that object.

\* A worker of the object in the storage can take the k-th of these tasks:
\* the mutex is not held by another of its workers, one of its workers (it has one) is
\* not in a task, and with a single queue the tasks before it have been
\* taken and their bodies have returned.
MQStorageFree(k) ==
  /\ \A j \in DOMAIN strayed : strayed[j].at # "locked"
  /\ Cardinality({j \in DOMAIN strayed : strayed[j].at = "body"}) < SIZE
  /\ SIZE = 1 => \A j \in 1 .. (k - 1) : strayed[j].at = "returned"

\* MessageQueue.cpp:37  std::unique_lock lock{mutex_}; by the worker whose
\* queue holds the k-th task.
MQStrayedLock(k) ==
  /\ kind = "MessageQueue"
  /\ ~terminated
  /\ strayed[k].at = "queued"
  /\ MQStorageFree(k)
  /\ strayed' = [strayed EXCEPT ![k].at = "locked"]
  /\ UNCHANGED <<terminated, obfuscation, compileTime, kind, SIZE, queue_, runing_, mutex_, pc, cur, arg, nextTask, hist>>

\* MessageQueue.cpp:39-45  the front is moved out and popped, the lock released;
\* elem() is called.
MQStrayedPop(k) ==
  /\ kind = "MessageQueue"
  /\ ~terminated
  /\ strayed[k].at = "locked"
  /\ strayed' = [strayed EXCEPT ![k].at = "body"]
  /\ UNCHANGED <<terminated, obfuscation, compileTime, kind, SIZE, queue_, runing_, mutex_, pc, cur, arg, nextTask, hist>>

\* MessageQueue.cpp:45  elem() returns (the task body has incremented the
\* counter).
MQStrayedReturn(k) ==
  /\ kind = "MessageQueue"
  /\ ~terminated
  /\ strayed[k].at = "body"
  /\ strayed' = [strayed EXCEPT ![k].at = "returned"]
  /\ counter' = counter + 1
  /\ UNCHANGED <<terminated, obfuscation, compileTime, kind, SIZE, queue_, runing_, mutex_, pc, cur, arg, nextTask, accepted, rejected, started, finished>>

\* The workers of the object in the storage, every task body returning.
MQStrayed ==
  \/ \E k \in DOMAIN strayed : MQStrayedLock(k)
  \/ \E k \in DOMAIN strayed : MQStrayedPop(k)
  \/ \E k \in DOMAIN strayed : MQStrayedReturn(k)

\* The owner lets the MessageQueue go out of scope.
MQDtorCall ==
  /\ kind = "MessageQueue"
  /\ ~terminated
  /\ pc[Owner] = "alive"
  /\ pc' = [pc EXCEPT ![Owner] = "t_lock"]
  /\ UNCHANGED <<terminated, strayed, obfuscation, compileTime, kind, SIZE, queue_, runing_, mutex_, cur, arg, nextTask, hist>>

\* MessageQueue.cpp:58  std::unique_lock lock{mutex_};
MQDtorLock ==
  /\ kind = "MessageQueue"
  /\ ~terminated
  /\ pc[Owner] = "t_lock"
  /\ MutexFree
  /\ mutex_' = Owner
  /\ pc' = [pc EXCEPT ![Owner] = "t_crit"]
  /\ UNCHANGED <<terminated, strayed, obfuscation, compileTime, kind, SIZE, queue_, runing_, cur, arg, nextTask, hist>>

\* MessageQueue.cpp:59-60  runing_ = false; unlock.  The condition variable
\* is not notified.
MQDtorStop ==
  /\ kind = "MessageQueue"
  /\ ~terminated
  /\ pc[Owner] = "t_crit"
  /\ runing_' = FALSE
  /\ pc' = [pc EXCEPT ![Owner] = "join"]
  /\ mutex_' = NoThread
  /\ UNCHANGED <<terminated, strayed, obfuscation, compileTime, kind, SIZE, queue_, cur, arg, nextTask, hist>>

\* MessageQueue.cpp:61  thread_.join();
MQDtorJoin ==
  /\ kind = "MessageQueue"
  /\ ~terminated
  /\ pc[Owner] = "join"
  /\ pc[W(0)] = "done"
  /\ pc' = [pc EXCEPT ![Owner] = "done"]
  /\ UNCHANGED <<terminated, strayed, obfuscation, compileTime, kind, SIZE, queue_, runing_, mutex_, cur, arg, nextTask, hist>>

\* The worker's steps when cv_.wait returns only on a notification.
MQWorker ==
  \/ MQWorkerName
  \/ MQWorkerLock
  \/ MQWorkerPop
  \/ MQWorkerWait
  \/ MQWorkerBreak
  \/ MQTaskReturn

MQWorkerWoken ==
  \/ MQWorkerWake
  \/ MQWorkerLoop

MQDispatch(t) ==
  \/ MQDispatchLock(t)
  \/ MQDispatchAccept(t)
  \/ MQDispatchReject(t)
  \/ MQDispatchDestroyed(t)

MQDtor ==
  \/ MQDtorLock
  \/ MQDtorStop
  \/ MQDtorJoin

\* The steps the code takes once a call has been made or the thread started,
\* cv_.wait returning only on a notification.
MQProgress ==
  \/ MQWorker
  \/ \E t \in DispatchThreads : MQDispatch(t)
  \/ MQDtor

\* The calls made on the object.
MQCalls ==
  \/ \E t \in DispatchThreads : MQDispatchCall(t)
  \/ MQDtorCall

\* cv_.wait returns only on a notification: nothing unblocks a waiting worker,
\* since no code notifies the condition variable.
MQNextNoSpurious ==
  \/ MQProgress
  \/ MQCalls
  \/ MQStrayed

MQNext ==
  \/ MQNextNoSpurious
  \/ MQWorkerSpurious
  \/ MQWorkerWoken

----------------------------------------------------------------------------
\* Counter.h: the compile-time counters.  The state of a translation unit is
\* the set of CounterHelper specializations whose friend IsDefined(tag) has
\* been defined.  Every evaluation of Counter / TreeCounter is a fresh
\* instantiation (the default argument FUN is a new closure type each time).

\* A TAG type: a type of the translation unit (base), possibly wrapped in
\* BlockValue<., ix> / BlockIndex<., ix>, innermost wrapper first.
Plain(t) == [base |-> t, wraps |-> <<>>]

\* Counter.h:128-132
BlockIndex(TAG, ID) == [base |-> TAG.base, wraps |-> Append(TAG.wraps, [of |-> "BlockIndex", ix |-> ID])]
BlockValue(TAG, ID) == [base |-> TAG.base, wraps |-> Append(TAG.wraps, [of |-> "BlockValue", ix |-> ID])]

\* Mutant: the TAG argument does not take part in the specialization.
CounterHelperNoTag(ID, TAG, DRY_RUN) == [id |-> ID, tag |-> Plain(0), dry |-> DRY_RUN]

\* Counter.h:70-72  the specialization CounterHelper<ID, TAG, DRY_RUN>, which
\* is its own tag.
CounterHelper(ID, TAG, DRY_RUN) == [id |-> ID, tag |-> TAG, dry |-> DRY_RUN]

\* Counter.h:74-76  instantiating h::MarkExists defines IsDefined(h::tag).
MarkExists(m, h) == m \cup {h}

\* Counter.h:78, 80  IsDefined(tag) is usable once it has been defined.
IsDefined(m, h) == h \in m

\* Mutant: the fallback overload marks nothing.
ExistsNoMark(m, h) == <<IsDefined(m, h), m>>

\* Counter.h:80-92  h::Exists(ID): the overload taking std::size_t is viable
\* only if IsDefined(tag) is defined, and returns true; otherwise the
\* overload taking float is called, whose instantiation defines
\* IsDefined(tag) unless h is a DRY_RUN specialization, and returns false.
\* The result is <<value returned, definitions afterwards>>.
Exists(m, h) ==
  IF IsDefined(m, h) THEN <<TRUE, m>>
  ELSE <<FALSE, IF ~h.dry THEN MarkExists(m, h) ELSE m>>

\* Counter.h:116-126  Counter<ID, TAG, DRY_RUN>().  The helper is
\* CounterHelper<ID, TAG>, whose DRY_RUN is the default, false.
\* The result is <<value returned, definitions afterwards>>.
RECURSIVE Counter(_, _, _, _)
Counter(m, ID, TAG, DRY_RUN) ==
  LET e == Exists(m, CounterHelper(ID, TAG, FALSE)) IN
    IF e[1] THEN Counter(e[2], ID + 1, TAG, DRY_RUN)
    ELSE <<ID, IF ~DRY_RUN THEN MarkExists(e[2], CounterHelper(ID, TAG, FALSE)) ELSE e[2]>>

\* Counter.h:155-172  TreeCounter<ID, TAG, BLOCK_SIZE, BLOCK_INDEX>().  The
\* block is looked up on CounterHelper<BLOCK_INDEX, BlockIndex<..>, true> and
\* marked on CounterHelper<BLOCK_INDEX, BlockIndex<..>> (DRY_RUN false); the
\* recursion within the block passes BlockValue<TAG, BLOCK_INDEX> as TAG.
\* The result is <<value returned, definitions afterwards, the BLOCK_INDEX
\* and the ID of the instantiation that returned the value>>.
RECURSIVE TreeCounter(_, _, _, _, _)
TreeCounter(m, ID, TAG, B, BLOCK_INDEX) ==
  LET blk == Exists(m, CounterHelper(BLOCK_INDEX, BlockIndex(TAG, BLOCK_INDEX), TRUE)) IN
    IF blk[1] THEN TreeCounter(blk[2], ID, TAG, B, BLOCK_INDEX + 1)
    ELSE
      LET m1 == IF ID % B = B - 1
                THEN MarkExists(blk[2], CounterHelper(BLOCK_INDEX, BlockIndex(TAG, BLOCK_INDEX), FALSE))
                ELSE blk[2]
          val == Exists(m1, CounterHelper(ID, BlockValue(TAG, BLOCK_INDEX), FALSE))
      IN IF val[1] THEN TreeCounter(val[2], ID + 1, BlockValue(TAG, BLOCK_INDEX), B, BLOCK_INDEX)
         ELSE <<ID + BLOCK_INDEX * B, val[2], BLOCK_INDEX, ID>>

\* encryption.h:100-137  UniqueId<SIZE, ID>().  Like Counter it recurses
\* while CounterHelper<ID, UniqueIdTag>::Exists(ID) is true; the fallback
\* overload of Exists marks the first ID for which it is not.  The array
\* returned has 8 * SIZE chars, hashed from __TIME__ and the seed offset
\* ID * SIZE (110-134); of the array the length and the seed offset are kept.
\* The result is <<value returned, definitions afterwards>>.
RECURSIVE UniqueId(_, _, _)
UniqueId(m, size, ID) ==
  LET e == Exists(m, CounterHelper(ID, Plain(UniqueIdTag), FALSE)) IN
    IF e[1] THEN UniqueId(e[2], size, ID + 1)
    ELSE <<[bytes |-> 8 * size, seed |-> ID * size], e[2]>>

\* encryption.h:139-154  the static_asserts of the header evaluate
\* UniqueId(), UniqueId<2>(), and UniqueId() twice more: the definitions a
\* translation unit has once it has included encryption.h.
EncryptionIncluded ==
  LET a == UniqueId({}, 1, 0)[2]
      b == UniqueId(a, 2, 0)[2]
      id1 == UniqueId(b, 1, 0)[2]
  IN UniqueId(id1, 1, 0)[2]

\* The translation units of the counters.
CounterUnits == {"Counter", "UniqueId"}

\* The TAG types the translation unit evaluates counters with: its own; a
\* unit that includes encryption.h has UniqueIdTag and one TAG of its own.
UnitTags ==
  IF kind = "UniqueId"
  THEN {UniqueIdTag, CHOOSE t \in CounterTags : \A u \in CounterTags : t <= u}
  ELSE CounterTags

\* encryption.h:139-140  the SIZE arguments UniqueId is evaluated with.
IdSizes == {1, 2}

\* The number of evaluations the translation unit's code has made so far.
RECURSIVE SumLen(_, _)
SumLen(log, n) == IF n < UniqueIdTag THEN 0 ELSE Len(log[n]) + SumLen(log, n - 1)

Evaluations == SumLen(counterLog, NumTags) + SumLen(treeLog, NumTags) + Len(uniqueLog)

\* A translation unit that has not evaluated a counter yet, and includes
\* Counter.h only or encryption.h; it has no Poll and no MessageQueue.
CounterInit ==
  /\ NothingObfuscated
  /\ \E b \in 1 .. MaxBlockSize, k \in CounterUnits :
       /\ kind = k
       /\ NothingEvaluated(b, IF k = "UniqueId" THEN EncryptionIncluded ELSE {})
  /\ SIZE = 0
  /\ queue_ = <<>>
  /\ runing_ = FALSE
  /\ mutex_ = NoThread
  /\ pc = <<>>
  /\ cur = <<>>
  /\ arg = <<>>
  /\ nextTask = 0
  /\ accepted = <<>>
  /\ rejected = {}
  /\ started = <<>>
  /\ finished = {}
  /\ counter = 0
  /\ terminated = FALSE
  /\ strayed = <<>>

\* The translation unit evaluates Counter<0, t, dry>().
EvalCounter(t, dry) ==
  /\ kind \in CounterUnits
  /\ t \in UnitTags
  /\ Evaluations < MaxEvals
  /\ LET r == Counter(marked, 0, Plain(t), dry) IN
       /\ marked' = r[2]
       /\ counterLog' = [counterLog EXCEPT ![t] = Append(@, [dry |-> dry, value |-> r[1]])]
  /\ UNCHANGED <<terminated, strayed, obfuscation, treeLog, BLOCK_SIZE, uniqueLog, kind, SIZE, queue_, runing_, mutex_, pc, cur, arg, nextTask, hist>>

\* The translation unit evaluates TreeCounter<0, t, BLOCK_SIZE>().
EvalTreeCounter(t) ==
  /\ kind \in CounterUnits
  /\ t \in UnitTags
  /\ Evaluations < MaxEvals
  /\ LET r == TreeCounter(marked, 0, Plain(t), BLOCK_SIZE, 0) IN
       /\ marked' = r[2]
       /\ treeLog' = [treeLog EXCEPT ![t] = Append(@, r[1])]
  /\ UNCHANGED <<terminated, strayed, obfuscation, counterLog, BLOCK_SIZE, uniqueLog, kind, SIZE, queue_, runing_, mutex_, pc, cur, arg, nextTask, hist>>

\* The translation unit, one that includes encryption.h, evaluates
\* UniqueId<size>().
EvalUniqueId(size) ==
  /\ kind = "UniqueId"
  /\ Evaluations < MaxEvals
  /\ Len(uniqueLog) < MaxIds
  /\ LET r == UniqueId(marked, size, 0) IN
       /\ marked' = r[2]
       /\ uniqueLog' = Append(uniqueLog, r[1])
  /\ UNCHANGED <<terminated, strayed, obfuscation, counterLog, treeLog, BLOCK_SIZE, kind, SIZE, queue_, runing_, mutex_, pc, cur, arg, nextTask, hist>>

CounterNext ==
  \/ \E t \in Tags : EvalCounter(t, FALSE)
  \/ \E t \in Tags : EvalCounter(t, TRUE)
  \/ \E t \in Tags : EvalTreeCounter(t)
  \/ \E size \in IdSizes : EvalUniqueId(size)

----------------------------------------------------------------------------
\* String obfuscation (include/cpp_utils/encryption.h)
\*
\* A char is a signed value -128 .. 127.  A utils::String<SIZE> built from a
\* string literal holds the SIZE chars of the array, the terminating zero
\* included (String.inl: std::copy_n(str, SIZE, value_.begin())).

\* The width of a char.
CharBits == 8

\* The bit pattern of a char, 0 .. 255 (the low bits of the promoted int).
ToByte(c) == IF c < 0 THEN c + 256 ELSE c

\* The char a bit pattern 0 .. 255 converts to.
ToChar(u) == IF u >= 128 THEN u - 256 ELSE u

\* operator^ on the low n bits of two bit patterns.
RECURSIVE BitXor(_, _, _)
BitXor(a, b, n) ==
  IF n = 0 THEN 0
  ELSE (((a % 2) + (b % 2)) % 2) + 2 * BitXor(a \div 2, b \div 2, n - 1)

\* result[i] = x ^ k for chars x and k: the xor of the promoted values,
\* converted back to char.
XorChar(x, k) == ToChar(BitXor(ToByte(x), ToByte(k), CharBits))

\* The char values the model draws literals from: 0x00, 0x55, 0xAA, ...
SampleChars == {ToChar((k * 85) % 256) : k \in 0 .. MaxSample}

\* utils::String<SIZE>::String(const char (&str)[SIZE]): value_ of a literal
\* whose chars are lit.
String(lit) == lit \o <<0>>

\* The literals of lengths lo .. hi.
Literals(lo, hi) == UNION {[1 .. n -> SampleChars] : n \in lo .. hi}

\* ObfuscateString<KEY, VALUE>(): N = VALUE.value_.size() chars,
\* result[i] = VALUE.value_[i] ^ KEY.value_[i % KEY.value_.size()].
\* Sequences are 1-based, the arrays 0-based.
ObfuscateString(K, V) ==
  [i \in 1 .. Len(V) |-> XorChar(V[i], K[((i - 1) % Len(K)) + 1])]

\* A mistaken DeobfuscateString that starts the key one place late.
DeobfuscateStringShifted(K, o) ==
  [i \in 1 .. Len(o) |-> XorChar(o[i], K[(i % Len(K)) + 1])]

\* DeobfuscateString<KEY>(obfuscated): a copy of the input with
\* result[i] = result[i] ^ KEY.value_[i % KEY.value_.size()].
DeobfuscateString(K, o) ==
  [i \in 1 .. Len(o) |-> XorChar(o[i], K[((i - 1) % Len(K)) + 1])]

\* A program that instantiates ObfuscateString with one key literal and one
\* value literal; either may be the empty literal "".
ObfuscateInit ==
  /\ \E k \in Literals(0, MaxKeyLen), v \in Literals(0, MaxValueLen) :
       /\ KEY = String(k)
       /\ VALUE = String(v)
  /\ obfuscated = <<>>
  /\ deobfuscated = <<>>
  /\ stage = "chosen"
  /\ kind = "Obfuscate"
  /\ NothingEvaluated(DefaultBlockSize, EncryptionIncluded)
  /\ SIZE = 0
  /\ queue_ = <<>>
  /\ runing_ = FALSE
  /\ mutex_ = NoThread
  /\ pc = <<>>
  /\ cur = <<>>
  /\ arg = <<>>
  /\ nextTask = 0
  /\ accepted = <<>>
  /\ rejected = {}
  /\ started = <<>>
  /\ finished = {}
  /\ counter = 0
  /\ terminated = FALSE
  /\ strayed = <<>>

\* The program obtains the view ObfuscateString<KEY, VALUE>() returns.
Obfuscate ==
  /\ kind = "Obfuscate"
  /\ stage = "chosen"
  /\ obfuscated' = ObfuscateString(KEY, VALUE)
  /\ stage' = "obfuscated"
  /\ UNCHANGED <<terminated, strayed, KEY, VALUE, deobfuscated, compileTime, kind, SIZE, queue_, runing_, mutex_, pc, cur, arg, nextTask, hist>>

\* The program passes that view to DeobfuscateString<KEY>.
Deobfuscate ==
  /\ kind = "Obfuscate"
  /\ stage = "obfuscated"
  /\ deobfuscated' = DeobfuscateString(KEY, obfuscated)
  /\ stage' = "deobfuscated"
  /\ UNCHANGED <<terminated, strayed, KEY, VALUE, obfuscated, compileTime, kind, SIZE, queue_, runing_, mutex_, pc, cur, arg, nextTask, hist>>

ObfuscateNext ==
  \/ Obfuscate
  \/ Deobfuscate

----------------------------------------------------------------------------
\* Specifications

\* Either class, every interleaving, spurious wakeups included.
Init == PollInit \/ MQInit

Next ==
  \/ PollNext
  \/ MQNext

Spec == Init /\ [][Next]_vars

\* Poll<SIZE> under fair scheduling, cv_.wait returning only on a
\* notification: as long as some thread can take a step of the code, a step
\* of the code is taken.  Without spurious wakeups every run is finite, so
\* this is all that fair scheduling of the threads adds.  Entering Dispatch
\* or the destructor is never forced.
PollLive == PollInit /\ [][PollNextNoSpurious]_vars /\ WF_vars(PollProgress)

\* The scenario of a Poll<2> given four tasks that each increment the shared
\* counter: one thread makes the four Dispatch calls and then lets the Poll
\* go out of scope; every task is held until the four calls have returned.
\* The flag is set during the four calls, so none takes the branch that
\* returns false.
ScenarioInit == Constructed("Poll", 2)

AllDispatched == nextTask = 4 /\ pc[C(1)] = "idle"

ScenarioNext ==
  \/ \E i \in Workers : PollWorkerLoopBody(i)
  \/ \E i \in Workers : PollWorkerSpurious(i)
  \/ \E i \in Workers : AllDispatched /\ PollTaskReturn(i)
  \/ PollDispatchCallUpTo(C(1), 4)
  \/ PollDispatchLock(C(1))
  \/ PollDispatchAccept(C(1))
  \/ AllDispatched /\ PollDtorCall
  \/ PollDtor

ScenarioSpec == ScenarioInit /\ [][ScenarioNext]_vars

\* Poll<SIZE> under fair scheduling, cv_.wait returning only on a
\* notification, when the task of the first Dispatch call is one whose body
\* does not return (it may call Dispatch before it blocks): elem() returns
\* for every other task only.
StuckTask == 1

PollTaskReturns(i) == cur[i] # StuckTask /\ PollTaskReturn(i)

PollStuckProgress ==
  \/ \E i \in Workers : PollWorkerLoopBody(i)
  \/ \E i \in Workers : PollTaskReturns(i)
  \/ \E t \in DispatchThreads : PollDispatch(t)
  \/ PollDtor

PollStuckNext ==
  \/ PollStuckProgress
  \/ PollCalls
  \/ \E k \in DOMAIN strayed : PollStrayedLock(k)
  \/ \E k \in DOMAIN strayed : PollStrayedPop(k)
  \/ \E k \in DOMAIN strayed : strayed[k].task # StuckTask /\ PollStrayedReturn(k)

PollStuck == PollInit /\ [][PollStuckNext]_vars /\ WF_vars(PollStuckProgress)

\* A Poll or a MessageQueue given one task from outside, every further
\* Dispatch call being made by a task body running on a worker; fair
\* scheduling, cv_.wait returning only on a notification.
ReentrantProgress ==
  \/ PollProgress
  \/ MQProgress

ReentrantNext ==
  \/ ReentrantProgress
  \/ \E c \in Callers : nextTask = 0 /\ PollDispatchCall(C(c))
  \/ \E i \in Workers : PollDispatchCall(W(i))
  \/ PollDtorCall
  \/ \E c \in Callers : nextTask = 0 /\ MQDispatchCall(C(c))
  \/ MQDispatchCall(W(0))
  \/ MQDtorCall
  \/ PollStrayed
  \/ MQStrayed

ReentrantLive == Init /\ [][ReentrantNext]_vars /\ WF_vars(ReentrantProgress)

\* A translation unit evaluating the compile-time counters, in any order.
CounterSpec == CounterInit /\ [][CounterNext]_vars

\* A string obfuscated at compile time and deobfuscated at run time with the
\* same key.
ObfuscateSpec == ObfuscateInit /\ [][ObfuscateNext]_vars

\* MessageQueue under fair scheduling, cv_.wait returning only on a
\* notification.
MQLive == MQInit /\ [][MQNextNoSpurious]_vars /\ WF_vars(MQProgress)

----------------------------------------------------------------------------
\* Vocabulary of the properties

AcceptedTasks == {accepted[k].task : k \in DOMAIN accepted}

RejectedTasks == {r.task : r \in rejected}
StartedTasks == {started[k].task : k \in DOMAIN started}

\* How many times task x was popped and run.
Runs(x) == Cardinality({k \in DOMAIN started : started[k].task = x})

\* How many times task x is held in the queues.
Queued(x) ==
  Cardinality({p \in UNION {{<<i, k>> : k \in DOMAIN queue_[i]} : i \in Workers} :
                 queue_[p[1]][p[2]] = x})

\* The rank at which task x was popped (0: not yet).
StartRank(x) ==
  IF x \in StartedTasks THEN CHOOSE k \in DOMAIN started : started[k].task = x ELSE 0

AllQueuesEmpty == \A i \in Workers : Len(queue_[i]) = 0
NoTaskRunning == \A i \in Workers : cur[i] = 0

\* C1: Poll<SIZE>, fair scheduling, every task returns: a task for which
\* Dispatch, called on the object while it exists, returned true is
\* eventually popped and run to its end, whatever the destructor does
\* meanwhile.  Acceptance and completion are permanent, so "each accepted
\* task eventually completes" is stated as: again and again, every task
\* accepted so far has been popped once and has completed.
C1_PollAcceptedIsExecuted ==
  []<>(kind = "Poll" =>
         \A x \in AcceptedTasks : Runs(x) = 1 /\ x \in finished)

\* C1 witness: a task that was still queued when ~Poll cleared the flag has
\* been popped after that and has run to its end.
C1_Witness ==
  /\ kind = "Poll"
  /\ \E k \in DOMAIN started : ~started[k].runing /\ started[k].task \in finished

\* C2 (as claimed): MessageQueue, no spurious wakeups, fair scheduling: a task
\* for which Dispatch returned true is eventually popped and run to its end.
C2_MQAcceptedIsExecuted ==
  \A x \in Tasks :
    (kind = "MessageQueue" /\ x \in AcceptedTasks) ~> (x \in finished)

\* C3: in Poll and in MessageQueue no task is run more than once: it is run
\* only if Dispatch accepted it, it is in the queues at most once, it is not
\* in a queue once it has been popped, and no two workers run the same task.
C3_AtMostOnce ==
  /\ \A x \in 1 .. nextTask :
       /\ Runs(x) <= 1
       /\ Runs(x) + Queued(x) <= 1
       /\ (Runs(x) + Queued(x) = 1) => x \in AcceptedTasks
  /\ \A i, j \in Workers : (cur[i] # 0 /\ cur[i] = cur[j]) => i = j

\* C3 witness: a task has been popped and has run to its end while another
\* worker or the destructor was active.
C3_Witness ==
  /\ \E x \in finished : Runs(x) = 1
  /\ ~runing_
  /\ Len(started) >= 2

\* C4: per-queue FIFO: of two tasks appended to the same queue, the one
\* appended first is popped first.
C4_PerQueueFifo ==
  \A j, k \in DOMAIN accepted :
    (j < k /\ accepted[j].queue = accepted[k].queue /\ accepted[k].task \in StartedTasks)
      => /\ accepted[j].task \in StartedTasks
         /\ StartRank(accepted[j].task) < StartRank(accepted[k].task)

\* C4 witness: two tasks of one queue have both been popped, the second
\* one submitted by the earlier Dispatch call of the two.
C4_Witness ==
  \E j, k \in DOMAIN accepted :
    /\ j < k
    /\ accepted[j].queue = accepted[k].queue
    /\ accepted[j].task > accepted[k].task
    /\ accepted[k].task \in StartedTasks

\* C5: closed-pool rejection, for the calls made on the object while it
\* exists: with the flag cleared no step appends to a queue or accepts a
\* task; a rejected task is never accepted, queued or run; a step that
\* accepts a task is taken by the holder of the mutex with the flag set; a
\* Dispatch call that leaves its critical section with the flag cleared
\* returns false.
C5_ClosedPoolRejects ==
  /\ [](\A x \in RejectedTasks : x \notin AcceptedTasks /\ Queued(x) = 0 /\ Runs(x) = 0)
  /\ [][ /\ ~runing_ =>
              /\ accepted' = accepted
              /\ \A i \in Workers : Len(queue_'[i]) <= Len(queue_[i])
         /\ accepted' # accepted =>
              /\ runing_
              /\ mutex_ \in DispatchThreads
              /\ arg[mutex_] = accepted'[Len(accepted')].task
         /\ \A t \in DispatchThreads :
              (pc[t] = "d_crit" /\ pc'[t] # "d_crit" /\ ~runing_ /\ ~Destroyed)
                => arg[t] \in {r.task : r \in rejected'} ]_vars

\* C5 witness: Dispatch called by a task that a worker was draining, and
\* Dispatch called by another thread, have both returned false.
C5_Witness ==
  /\ \E r \in rejected : r.inTask
  /\ \E r \in rejected : ~r.inTask

\* C6: Poll<SIZE>::Dispatch appends an accepted task to exactly one queue,
\* the lowest-indexed one among those of minimal length; the other queues
\* are left as they are.
C6_QueueSelection ==
  [][ (kind = "Poll" /\ accepted' # accepted) =>
        \E q \in Workers :
          /\ \A j \in Workers : Len(queue_[q]) <= Len(queue_[j])
          /\ \A j \in Workers : j < q => Len(queue_[q]) < Len(queue_[j])
          /\ queue_'[q] = Append(queue_[q], accepted'[Len(accepted')].task)
          /\ \A j \in Workers : j # q => queue_'[j] = queue_[j]
          /\ accepted'[Len(accepted')].queue = q ]_vars

\* C6 witness: a task went to queue 1 of a Poll while queue 0 was longer, and
\* a later one went to queue 0 on a tie.
C6_Witness ==
  /\ kind = "Poll"
  /\ \E j, k \in DOMAIN accepted :
       j < k /\ accepted[j].queue = 1 /\ accepted[k].queue = 0

\* The first SIZE accepted tasks are in SIZE different queues.
FirstOnDistinctQueues ==
  \A j, k \in DOMAIN accepted :
    (j < k /\ k <= SIZE) => accepted[j].queue # accepted[k].queue

\* C7 (as claimed): Poll of size K, queues empty at first: as long as no
\* task has completed, the first K Dispatch calls land on K distinct queues.
C7_LoadSpreadNoCompletion ==
  (kind = "Poll" /\ finished = {}) => FirstOnDistinctQueues

\* Queues 0 .. m-1 hold one task each and the others none: what m Dispatch
\* calls leave of a Poll whose queues were all empty, if no worker popped
\* a task meanwhile.
Spread(q, m) == \A i \in Workers : Len(q[i]) = (IF i < m THEN 1 ELSE 0)

\* C7 (amended): Poll of size K, queues all empty: as long as no worker pops
\* a task, K consecutive Dispatch calls land on K distinct queues.  From
\* construction: the first K accepted tasks are in distinct queues while
\* nothing has been popped.  From any state with all queues empty: the
\* (m+1)-th accepted task of such a series, m < K, goes to queue m, which is
\* still empty.
C7_LoadSpreadNoPop ==
  /\ []((kind = "Poll" /\ started = <<>>) => FirstOnDistinctQueues)
  /\ [][ \A m \in 0 .. (SIZE - 1) :
            (kind = "Poll" /\ accepted' # accepted /\ Spread(queue_, m))
              => /\ Spread(queue_', m + 1)
                 /\ accepted'[Len(accepted')].queue = m ]_vars

\* C7 witness: K >= 2 tasks were accepted one after the other, after an
\* earlier task had completed and left every queue empty, and none of the K
\* has been popped.
C7_Witness ==
  /\ kind = "Poll"
  /\ SIZE >= 2
  /\ finished # {}
  /\ Spread(queue_, SIZE)
  /\ \A i \in Workers : queue_[i] = <<accepted[Len(accepted) - SIZE + 1 + i].task>>

\* C8: Poll<2>, four counting tasks held until the four Dispatch calls have
\* returned: both queues received a task, and once ~Poll has returned the
\* counter is 4.
C8_Scenario ==
  /\ Len(accepted) = 4 => {accepted[k].queue : k \in DOMAIN accepted} = {0, 1}
  /\ pc[Owner] = "done" => (Len(accepted) = 4 /\ counter = 4)

\* C8 witness: ~Poll has returned with the counter at 4.
C8_Witness ==
  /\ pc[Owner] = "done"
  /\ counter = 4
  /\ {accepted[k].queue : k \in DOMAIN accepted} = {0, 1}

\* C9: Poll<SIZE>, fair scheduling: ~Poll entered with every queue empty and
\* no task running returns.
C9_PollTerminates ==
  (kind = "Poll" /\ pc[Owner] = "t_lock" /\ AllQueuesEmpty /\ NoTaskRunning)
    ~> (pc[Owner] = "done")

\* C9 witness: ~Poll has returned on a Poll whose workers were waiting or
\* had not reached their first lock, no task having ever been dispatched.
C9_Witness ==
  /\ kind = "Poll"
  /\ pc[Owner] = "done"
  /\ nextTask = 0
  /\ \A i \in Workers : pc[W(i)] = "done"

\* C10 (as claimed): MessageQueue, no spurious wakeups, fair scheduling:
\* ~MessageQueue entered with the queue empty and the worker blocked in
\* cv_.wait returns.
C10_MQTerminates ==
  (kind = "MessageQueue" /\ pc[Owner] = "t_lock" /\ AllQueuesEmpty /\ pc[W(0)] = "wait")
    ~> (pc[Owner] = "done")

\* C11: cooperative shutdown, Poll and MessageQueue: once the destructor has
\* returned every accepted task has run to its end, every queue is empty and
\* no task is running (so it does not return while an accepted task has not
\* returned); and no step discards a queued task or abandons a running one:
\* a task leaves a queue only from the front, into the hands of the queue's
\* worker, and leaves the worker only by returning.
C11_CooperativeShutdown ==
  /\ [](pc[Owner] = "done" =>
          /\ \A x \in AcceptedTasks : Runs(x) = 1 /\ x \in finished
          /\ AllQueuesEmpty
          /\ NoTaskRunning)
  /\ [][ \A i \in Workers :
            /\ \/ queue_'[i] = queue_[i]
               \/ /\ Len(queue_'[i]) = Len(queue_[i]) + 1
                  /\ SubSeq(queue_'[i], 1, Len(queue_[i])) = queue_[i]
               \/ /\ Len(queue_[i]) > 0
                  /\ queue_'[i] = Tail(queue_[i])
                  /\ cur'[i] = Head(queue_[i])
            /\ (cur[i] # 0 /\ cur'[i] # cur[i]) =>
                  (cur'[i] = 0 /\ cur[i] \in finished') ]_vars

\* C11 witness: the destructor has returned after a task that was still
\* queued when the flag was cleared, and another one, ran to their end.
C11_Witness ==
  /\ pc[Owner] = "done"
  /\ Len(accepted) >= 2
  /\ \E k \in DOMAIN started : ~started[k].runing

\* The queue the task that does not return was appended to (-1: none).
StuckQueue ==
  IF StuckTask \in AcceptedTasks
  THEN accepted[CHOOSE k \in DOMAIN accepted : accepted[k].task = StuckTask].queue
  ELSE -1

\* C12: Poll<SIZE>: a worker in elem() does not hold the mutex through the
\* lock of its loop (it holds it only inside a Dispatch call the task makes),
\* and a thread inside Dispatch is never blocked on the condition variable
\* (it is at the lock or in the critical section, or held by the lock of an
\* object already destroyed).
\* With a task that never returns, under fair scheduling: once a worker is
\* in that task every Dispatch call completes (the destructor cannot return
\* then, so the object outlives the calls), and every task accepted on a
\* queue other than the one of the stuck task is popped and run to its end
\* by the worker of that queue.
C12_TaskStallsOnlyItsWorker ==
  /\ [](\A i \in Workers : pc[W(i)] = "exec" => mutex_ # W(i))
  /\ [](\A t \in DispatchThreads :
          arg[t] # 0 => pc[t] \in {"d_lock", "d_crit", "d_blocked"})
  /\ []<>((\E i \in Workers : cur[i] = StuckTask) =>
            \A t \in DispatchThreads : arg[t] = 0)
  /\ []<>(\A k \in DOMAIN accepted :
            accepted[k].queue # StuckQueue =>
              /\ accepted[k].task \in finished
              /\ \E n \in DOMAIN started :
                   started[n].task = accepted[k].task /\ started[n].worker = accepted[k].queue)

\* C12 witness: worker 0 is inside the task that does not return; the
\* Dispatch calls made since then have returned true, one task is queued
\* behind the stuck worker and the other has been run by worker 1.
C12_Witness ==
  /\ kind = "Poll"
  /\ cur[0] = StuckTask
  /\ Len(queue_[0]) = 1
  /\ \E n \in DOMAIN started :
       started[n].worker = 1 /\ started[n].task \in finished /\ n > StartRank(StuckTask)

\* C13: lifecycle of the flag, Poll and MessageQueue: it is set from
\* construction until the destructor clears it and cleared from then on; the
\* only step that changes it is the destructor's, holding the mutex, from
\* set to cleared.
C13_RuningLifecycle ==
  /\ [](runing_ <=> pc[Owner] \in {"alive", "t_lock", "t_crit"})
  /\ [][ runing_' # runing_ =>
            /\ runing_ /\ ~runing_'
            /\ mutex_ = Owner
            /\ pc[Owner] = "t_crit" /\ pc'[Owner] = "join" ]_vars

\* C13 witness: the destructor has cleared the flag and returned, and
\* Dispatch calls made after the flag was cleared found it cleared.
C13_Witness ==
  /\ ~runing_
  /\ pc[Owner] = "done"
  /\ Cardinality(rejected) >= 2

\* C14: TreeCounter: the successive evaluations of TreeCounter<0, TAG, B>()
\* with one TAG and one block size B return 0, 1, 2, ... in that order,
\* across the block boundaries (values B, B+1, ...) too, whatever Counter
\* and UniqueId evaluations are made in between, with UniqueIdTag as TAG too.
C14_TreeCounterCounts ==
  \A t \in Tags : \A k \in DOMAIN treeLog[t] : treeLog[t][k] = k - 1

\* C14 witness: the static_assert of Counter.h: block size 4, six
\* evaluations with one TAG, giving 0 .. 5.
C14_Witness ==
  /\ BLOCK_SIZE = 4
  /\ \E t \in Tags : treeLog[t] = <<0, 1, 2, 3, 4, 5>>

\* The first ID for which CounterHelper<ID, TAG> is not marked in m.
FirstUnused(m, t) ==
  CHOOSE n \in 0 .. Cardinality(m) :
    /\ ~IsDefined(m, CounterHelper(n, Plain(t), FALSE))
    /\ \A j \in 0 .. (n - 1) : IsDefined(m, CounterHelper(j, Plain(t), FALSE))

\* The last evaluation of Counter logged for TAG t.
LastCounter(log, t) == log[t][Len(log[t])]

\* C15 (as claimed): Counter: the values the evaluations of Counter<0, TAG>()
\* return for one TAG, a TAG used by such evaluations only, are 0, 1, 2, ...
\* in that order, for every TAG.
C15_CounterCountsFromZero ==
  \A t \in Tags :
    (\A k \in DOMAIN counterLog[t] : ~counterLog[t][k].dry)
      => \A k \in DOMAIN counterLog[t] : counterLog[t][k].value = k - 1

\* C15: Counter: an evaluation of Counter<0, TAG>() returns the first ID not
\* marked for TAG and marks it, and marks nothing else; the values it
\* returns for one TAG are pairwise distinct and increasing; they are
\* 0, 1, 2, ... in that order when the TAG is used by such evaluations only
\* and is not UniqueIdTag, whatever is evaluated with other TAGs in between,
\* UniqueId included.
C15_CounterCounts ==
  /\ [](\A t \in Tags :
          /\ \A j, k \in DOMAIN counterLog[t] :
               (j < k /\ ~counterLog[t][j].dry /\ ~counterLog[t][k].dry)
                 => counterLog[t][j].value < counterLog[t][k].value
          /\ (t # UniqueIdTag /\ \A k \in DOMAIN counterLog[t] : ~counterLog[t][k].dry)
               => \A k \in DOMAIN counterLog[t] : counterLog[t][k].value = k - 1)
  /\ [][ /\ \A t \in Tags :
             (counterLog'[t] # counterLog[t] /\ ~LastCounter(counterLog', t).dry) =>
               (/\ LastCounter(counterLog', t).value = FirstUnused(marked, t)
                /\ marked' = marked \cup {CounterHelper(FirstUnused(marked, t), Plain(t), FALSE)}
                /\ \A u \in Tags : (u # t => counterLog'[u] = counterLog[u])
                /\ treeLog' = treeLog
                /\ uniqueLog' = uniqueLog)
         /\ (uniqueLog' # uniqueLog) =>
               (/\ \A h \in marked' \ marked : h.tag = Plain(UniqueIdTag)
                /\ counterLog' = counterLog
                /\ treeLog' = treeLog) ]_vars

\* C15 witness: a translation unit that includes encryption.h and has
\* evaluated UniqueId; a TAG of its own and UniqueIdTag, each used by
\* Counter<0, TAG>() only, the one three times and the other twice.
C15_Witness ==
  /\ Len(uniqueLog) > 0
  /\ \E t \in CounterTags, u \in {UniqueIdTag} :
       /\ Len(counterLog[t]) = 3
       /\ Len(counterLog[u]) = 2
       /\ \A k \in DOMAIN counterLog[t] : ~counterLog[t][k].dry
       /\ \A k \in DOMAIN counterLog[u] : ~counterLog[u][k].dry

\* C16 (as claimed): Counter<0, TAG, true>() returns the first unused ID
\* for TAG and leaves the set of marked IDs as it is, and the evaluation of
\* Counter<0, TAG>() that follows it returns the same value.
C16_DryRunNoSideEffect ==
  /\ [](\A t \in Tags : \A k \in DOMAIN counterLog[t] :
          (k > 1 /\ counterLog[t][k - 1].dry /\ ~counterLog[t][k].dry)
            => counterLog[t][k].value = counterLog[t][k - 1].value)
  /\ [][ \A t \in Tags :
            (counterLog'[t] # counterLog[t] /\ LastCounter(counterLog', t).dry) =>
              /\ LastCounter(counterLog', t).value = FirstUnused(marked, t)
              /\ marked' = marked ]_vars

\* C17: worker exit condition, Poll and MessageQueue: a worker leaves its
\* loop only by a step taken while it holds the mutex, its own queue empty
\* and the flag cleared; holding the mutex with the flag cleared and its
\* queue not empty, its step is to pop the front task and run it; a worker
\* that has left found the flag cleared, and its queue stays empty.
C17_WorkerExit ==
  /\ [](\A i \in Workers :
          pc[W(i)] = "done" => (~runing_ /\ Len(queue_[i]) = 0 /\ cur[i] = 0))
  /\ [][ \A i \in Workers :
            /\ (pc[W(i)] # "done" /\ pc'[W(i)] = "done") =>
                  /\ pc[W(i)] = "crit"
                  /\ mutex_ = W(i)
                  /\ Len(queue_[i]) = 0
                  /\ ~runing_
            /\ (pc[W(i)] = "crit" /\ pc'[W(i)] # "crit" /\ Len(queue_[i]) > 0) =>
                  /\ pc'[W(i)] = "exec"
                  /\ cur'[i] = Head(queue_[i])
                  /\ queue_'[i] = Tail(queue_[i]) ]_vars

\* C17 witness: the MessageQueue worker has left its loop after popping a
\* task with the flag already cleared.
C17_Witness ==
  /\ kind = "MessageQueue"
  /\ pc[W(0)] = "done"
  /\ \E k \in DOMAIN started : ~started[k].runing

\* How many workers are running task x.
Executing(x) == Cardinality({i \in Workers : cur[i] = x})

\* The tasks appended to queue i and not popped yet, in the order in which
\* the Dispatch calls that appended them held the mutex.
Pending(i) ==
  LET sel == SelectSeq(accepted, LAMBDA a : a.queue = i /\ a.task \notin StartedTasks)
  IN [k \in DOMAIN sel |-> sel[k].task]

\* C18: conservation with Dispatch called from several threads at once: a
\* task the object accepted (Dispatch returned true) is in exactly one
\* place: once in one queue, or run by one worker, or finished; any other
\* task, one for which Dispatch returned false or whose Dispatch has not
\* appended, is in no queue and is not run, and while the object exists it
\* has been rejected or its call is still in progress; each queue holds its
\* tasks in the order in which the Dispatch calls held the mutex.
C18_Conservation ==
  /\ \A x \in AcceptedTasks :
       Queued(x) + Executing(x) + (IF x \in finished THEN 1 ELSE 0) = 1
  /\ \A x \in (1 .. nextTask) \ AcceptedTasks :
       /\ Queued(x) = 0 /\ Executing(x) = 0 /\ x \notin finished
       /\ ~Destroyed => (x \in RejectedTasks \/ \E t \in DOMAIN arg : arg[t] = x)
  /\ \A i \in Workers : queue_[i] = Pending(i)

\* C18 witness: two Dispatch calls were in progress at once and the later
\* call got the mutex first: its task is queued ahead of the other one,
\* while a worker is running a task.
C18_Witness ==
  /\ \E i \in Workers : Len(queue_[i]) >= 2 /\ queue_[i][1] > queue_[i][2]
  /\ \E i \in Workers : cur[i] # 0

\* C19: Poll<SIZE>: wakeups without work are harmless.  The steps of worker
\* i from the return of cv_.wait to its next test (wait returns with the
\* mutex, the iteration ends, the mutex is taken again) change no queue, no
\* running task, nothing of the history; when it then finds its own queue
\* empty and the flag set it waits again, having run nothing; and no step of
\* worker i at its test changes the queue or the task of another worker.
C19_WakeupsHarmless ==
  [][ kind = "Poll" =>
        \A i \in Workers :
          /\ (pc[W(i)] \in {"woken", "loop", "lock"} /\ pc'[W(i)] # pc[W(i)]) =>
                /\ pc'[W(i)] = (CASE pc[W(i)] = "woken" -> "loop"
                                   [] pc[W(i)] = "loop" -> "lock"
                                   [] pc[W(i)] = "lock" -> "crit")
                /\ queue_' = queue_ /\ cur' = cur /\ hist' = hist /\ runing_' = runing_
          /\ (pc[W(i)] = "crit" /\ pc'[W(i)] # "crit") =>
                \A j \in Workers : j # i => (queue_'[j] = queue_[j] /\ cur'[j] = cur[j])
          /\ (pc[W(i)] = "crit" /\ pc'[W(i)] # "crit" /\ Len(queue_[i]) = 0 /\ runing_) =>
                /\ pc'[W(i)] = "wait"
                /\ queue_' = queue_ /\ cur' = cur /\ hist' = hist /\ runing_' = runing_ ]_vars

\* C19 witness: cv_.wait has returned in worker 1 of a Poll, which holds
\* the mutex again; its queue is empty and the flag is set; the tasks
\* dispatched so far all went to worker 0, and worker 1 has run nothing.
C19_Witness ==
  /\ kind = "Poll"
  /\ SIZE >= 2
  /\ runing_
  /\ pc[W(1)] = "loop"
  /\ mutex_ = W(1)
  /\ Len(queue_[1]) = 0
  /\ Len(accepted) >= 2
  /\ \A k \in DOMAIN accepted : accepted[k].queue = 0
  /\ \A k \in DOMAIN started : started[k].worker = 0

\* The queue Dispatch appended the accepted task x to.
AcceptedQueue(x) == accepted[CHOOSE k \in DOMAIN accepted : accepted[k].task = x].queue

\* C20: Poll<SIZE>, no work-stealing: a task is only ever held by the queue
\* Dispatch appended it to, and is popped and run by the worker of that
\* queue and no other, whatever the other workers are doing.
C20_NoWorkStealing ==
  kind = "Poll" =>
    /\ \A i \in Workers : \A k \in DOMAIN queue_[i] :
         queue_[i][k] \in AcceptedTasks /\ AcceptedQueue(queue_[i][k]) = i
    /\ \A i \in Workers :
         cur[i] # 0 => (cur[i] \in AcceptedTasks /\ AcceptedQueue(cur[i]) = i)
    /\ \A k \in DOMAIN started :
         started[k].task \in AcceptedTasks /\ AcceptedQueue(started[k].task) = started[k].worker

\* C20 witness: worker 0 of a Poll is inside a task and a task is queued
\* behind it, while worker 1 waits with its queue empty and has run
\* nothing.
C20_Witness ==
  /\ kind = "Poll"
  /\ SIZE >= 2
  /\ cur[0] # 0
  /\ Len(queue_[0]) >= 1
  /\ pc[W(1)] = "wait"
  /\ Len(queue_[1]) = 0
  /\ \A k \in DOMAIN started : started[k].worker = 0

\* Task A was accepted before task B, on another queue.
AcceptedBeforeElsewhere(A, B) ==
  \E j, k \in DOMAIN accepted :
    /\ j < k
    /\ accepted[j].task = A /\ accepted[k].task = B
    /\ accepted[j].queue # accepted[k].queue

\* The outcomes for such a pair: A is popped while B is still queued, B is
\* popped while A is still queued, both are running.
EarlierStartsFirst ==
  \E A, B \in Tasks :
    AcceptedBeforeElsewhere(A, B) /\ StartRank(A) > 0 /\ Queued(B) = 1
LaterStartsFirst ==
  \E A, B \in Tasks :
    AcceptedBeforeElsewhere(A, B) /\ StartRank(B) > 0 /\ Queued(A) = 1
BothRunning ==
  \E A, B \in Tasks :
    AcceptedBeforeElsewhere(A, B) /\ Executing(A) = 1 /\ Executing(B) = 1

\* C21: Poll<SIZE>, no ordering across queues: whether worker i may take
\* the mutex and pop the front task of its queue depends on the mutex and
\* on queue i alone, not on the tasks accepted earlier on other queues
\* being queued, running or finished.  So of two tasks accepted on
\* different queues either may start first, and both may run at once.
C21_NoCrossQueueOrder ==
  kind = "Poll" =>
    \A i \in Workers :
      /\ (pc[W(i)] = "lock" /\ MutexFree) => ENABLED PollWorkerLock(i)
      /\ (pc[W(i)] = "crit" /\ Len(queue_[i]) > 0) => ENABLED PollWorkerPop(i)

\* C21 witness: of two tasks accepted on different queues the one accepted
\* later was popped first, and both are running now.
C21_Witness ==
  \E A, B \in Tasks :
    /\ AcceptedBeforeElsewhere(A, B)
    /\ Executing(A) = 1 /\ Executing(B) = 1
    /\ StartRank(B) < StartRank(A)

\* The positions at which a thread is between taking the mutex and
\* releasing it: the worker's test of its queue and of the flag, the worker
\* back from cv_.wait, the body of Dispatch, the block of the destructor.
Locked == {"crit", "loop", "d_crit", "t_crit"}

\* C22: lock discipline, Poll and MessageQueue: at most one thread is
\* between lock and unlock, and it is the holder of the mutex; every step
\* that changes a queue or the flag, and every step that goes by the size of
\* a queue or by the flag (pop, wait, break, append, return false), is taken
\* by the thread that holds the mutex.  The queues, the flag and the mutex
\* are those of the object: a call that goes on after the destructor has
\* returned reaches none of them.
C22_LockDiscipline ==
  /\ [](\A t \in DOMAIN pc : (pc[t] \in Locked) <=> (mutex_ = t))
  /\ [](\A t, u \in DOMAIN pc : (pc[t] \in Locked /\ pc[u] \in Locked) => t = u)
  /\ [][ (queue_' # queue_ \/ runing_' # runing_ \/ started' # started
            \/ accepted' # accepted \/ (rejected' # rejected /\ ~Destroyed)
            \/ \E i \in Workers : pc[W(i)] = "crit" /\ pc'[W(i)] \in {"wait", "done"})
          => /\ mutex_ \in DOMAIN pc
             /\ pc[mutex_] \in {"crit", "d_crit", "t_crit"}
             /\ pc'[mutex_] \notin Locked
             /\ mutex_' = NoThread ]_vars

\* C22 witness: a worker holds the mutex at its test while a Dispatch call
\* and the destructor are both blocked on it.
C22_Witness ==
  /\ \E i \in Workers : mutex_ = W(i) /\ pc[W(i)] = "crit"
  /\ \E c \in Callers : pc[C(c)] = "d_lock"
  /\ pc[Owner] = "t_lock"

\* C23: Poll<SIZE>, no lost wakeup: a worker blocked in cv_.wait with no
\* notification pending has an empty queue, and the flag is set.
C23_NoLostWakeup ==
  kind = "Poll" =>
    \A i \in Workers : pc[W(i)] = "wait" => (Len(queue_[i]) = 0 /\ runing_)

\* C23 witness: two workers of a Poll were blocked in cv_.wait; both have
\* been notified and not yet scheduled, one with a task in its queue, and
\* the flag has been cleared since.
C23_Witness ==
  /\ kind = "Poll"
  /\ SIZE >= 2
  /\ ~runing_
  /\ \A i \in Workers : pc[W(i)] = "woken"
  /\ \E i \in Workers : Len(queue_[i]) > 0

\* C24: re-entrant Dispatch, Poll and MessageQueue, under fair scheduling:
\* a worker that calls Dispatch from inside a task does not hold the mutex
\* it is about to lock; its call returns into the task, having appended the
\* new task if the flag was set and having returned false, nothing
\* appended, if the flag was cleared; every such call returns, and every
\* task accepted from such a call is popped once and runs to its end.
C24_ReentrantDispatch ==
  /\ [](\A i \in Workers : pc[W(i)] = "d_lock" => mutex_ # W(i))
  /\ [][ \A i \in Workers :
            (pc[W(i)] = "d_crit" /\ pc'[W(i)] # "d_crit") =>
              /\ pc'[W(i)] = "exec"
              /\ cur'[i] = cur[i]
              /\ IF runing_
                 THEN /\ Len(accepted') = Len(accepted) + 1
                      /\ accepted'[Len(accepted')].task = arg[W(i)]
                      /\ rejected' = rejected
                 ELSE /\ accepted' = accepted
                      /\ queue_' = queue_
                      /\ [task |-> arg[W(i)], inTask |-> TRUE] \in rejected' ]_vars
  /\ []<>(\A i \in Workers : pc[W(i)] \notin {"d_lock", "d_crit"})
  /\ []<>(\A k \in DOMAIN accepted :
            accepted[k].task > 1 => (Runs(accepted[k].task) = 1 /\ accepted[k].task \in finished))

\* C24 witness: on a MessageQueue a task called Dispatch with the flag set
\* and the task it submitted has run to its end, and a task running during
\* the drain called Dispatch and got false.
C24_Witness ==
  /\ kind = "MessageQueue"
  /\ \E k \in DOMAIN accepted : accepted[k].task > 1 /\ accepted[k].task \in finished
  /\ \E r \in rejected : r.inTask
  /\ \E k \in DOMAIN started : ~started[k].runing

\* What n Dispatch calls leave of a Poll whose queues were all empty if no
\* worker popped meanwhile: queue i holds one task for every m < n with
\* m mod SIZE = i.
Balanced(q, n) ==
  \A i \in Workers : Len(q[i]) = (n \div SIZE) + (IF i < n % SIZE THEN 1 ELSE 0)

\* C25: Poll of size K, balanced backlog.  From construction, while no
\* worker has popped: the m-th accepted task (m = 0, 1, ...) is in queue
\* m mod K, behind the earlier ones of that queue; the queue lengths differ
\* by at most 1 and do not increase with the queue index.  From any state
\* with all queues empty: the Dispatch that follows n accepted ones with no
\* pop in between appends to queue n mod K.
C25_BalancedBacklog ==
  /\ []((kind = "Poll" /\ started = <<>>) =>
          /\ \A k \in DOMAIN accepted :
               /\ accepted[k].queue = (k - 1) % SIZE
               /\ queue_[(k - 1) % SIZE][((k - 1) \div SIZE) + 1] = accepted[k].task
          /\ \A i, j \in Workers : Len(queue_[i]) - Len(queue_[j]) \in {-1, 0, 1}
          /\ \A i, j \in Workers : i < j => Len(queue_[i]) >= Len(queue_[j])
          /\ Balanced(queue_, Len(accepted)))
  /\ [][ \A n \in 0 .. MaxTasks :
            (kind = "Poll" /\ accepted' # accepted /\ Balanced(queue_, n))
              => /\ Balanced(queue_', n + 1)
                 /\ accepted'[Len(accepted')].queue = n % SIZE ]_vars

\* C25 witness: a Poll<2> holds three tasks, none popped: the third one is
\* behind the first in queue 0.
C25_Witness ==
  /\ kind = "Poll"
  /\ SIZE = 2
  /\ started = <<>>
  /\ Len(accepted) = 3
  /\ Len(queue_[0]) = 2 /\ Len(queue_[1]) = 1

\* A block of TAG t has been marked as terminated: IsDefined is defined for
\* a CounterHelper<BLOCK_INDEX, BlockIndex<.., BLOCK_INDEX>> over t.
BlockMarked(t) ==
  \E h \in marked :
    /\ h.tag.base = t
    /\ Len(h.tag.wraps) > 0
    /\ h.tag.wraps[Len(h.tag.wraps)].of = "BlockIndex"

\* C26 (as claimed): TreeCounter block advance: once BLOCK_SIZE values have
\* been handed out for a TAG, the last ID of block 0 among them, the block
\* is marked as terminated, and the next TreeCounter<0, TAG, BLOCK_SIZE>()
\* returns from an instantiation with BLOCK_INDEX >= 1 whose ID is within
\* one block, the IDs of block 0 not being scanned again.
C26_BlockAdvance ==
  \A t \in Tags :
    Len(treeLog[t]) >= BLOCK_SIZE =>
      /\ BlockMarked(t)
      /\ LET r == TreeCounter(marked, 0, Plain(t), BLOCK_SIZE, 0) IN
           /\ r[3] >= 1
           /\ r[4] < BLOCK_SIZE


\* C27: deobfuscating, with the key K, the output of ObfuscateString<K, V>
\* gives back V byte for byte, and the obfuscated string, the recovered
\* string and V all have the same length.
C27_RoundTrip ==
  kind = "Obfuscate" =>
    /\ stage \in {"obfuscated", "deobfuscated"} =>
         Len(obfuscated) = Len(VALUE)
    /\ stage = "deobfuscated" =>
         /\ Len(deobfuscated) = Len(obfuscated)
         /\ \A i \in 1 .. Len(VALUE) : deobfuscated[i] = VALUE[i]

\* A finished round trip in which the value is longer than the key, so the
\* key was cycled, the key has two different chars with the high bit
\* in play, and the obfuscated chars differ from the value's.
C27_Witness ==
  /\ kind = "Obfuscate"
  /\ stage = "deobfuscated"
  /\ Len(VALUE) > Len(KEY)
  /\ Len(KEY) > 2
  /\ KEY[1] # KEY[2]
  /\ \E i \in 1 .. Len(KEY) : KEY[i] < 0
  /\ \E i \in 1 .. Len(VALUE) : obfuscated[i] # VALUE[i]
  /\ obfuscated[Len(KEY) + 1] # VALUE[Len(KEY) + 1]
  /\ deobfuscated = VALUE

====
